---- MODULE Spec2Model ----
(***************************************************************************)
(* Model of the CookieCutter UI styling engine (common/ui_styling.py):     *)
(* selector decomposition, the recursive selector matcher, the selector    *)
(* trie, the cascade, and the caches of a UI_Styling stylesheet.           *)
(*                                                                         *)
(* A simple-selector string such as  span#a.c:hover  is a sequence of      *)
(* facet tokens, one per match of the regular expression selector_splitter:*)
(* [t |-> marker, n |-> name, v |-> value] where the marker is "" (no      *)
(* marker: a type), ".", "#", ":", "::" or "[" and v is "" when the regex  *)
(* group `val` is None.  The string '>' is the single token with name ">". *)
(* A selector (element chain or style selector) is a sequence of strings.  *)
(***************************************************************************)
EXTENDS Integers, Sequences, FiniteSets, TLC

VARIABLES
    rules,          \* UI_Styling.rules of each stylesheet: sequence of rule uids
    trie,           \* UI_Styling._trie of each stylesheet: None or the built trie
    decllist_cache, \* UI_Styling._decllist_cache of each stylesheet
    matches_cache,  \* UI_Styling._matches_cache of each stylesheet
    inline,         \* UI_Styling._inline of each stylesheet
    rulesets,       \* every UI_Style_RuleSet object created so far, by uid
    next_uid,       \* UI_Style_RuleSet.uid_generator
    spec_cache,     \* UI_Style_RuleSet.selector_specificity._cache (process-wide)
    trim_cache,     \* UI_Styling.trim_styling._cache (process-wide)
    m_elem,         \* argument sel_elem of a match_selector call
    m_style,        \* argument sel_style of a match_selector call
    m_pc,           \* position of the match_selector call: "call" or "done"
    m_result,       \* value returned by the match_selector call
    e_decls,        \* argument decls of an _expand_declarations call
    e_dict,         \* its local dict decllist
    e_i,            \* index in decls of the declaration the loop handles next
    e_pc,           \* position of the call: "loop", "filter" or "done"
    p_text,         \* token sequence of the text given to a load_from_text call
    p_pc,           \* position of that call: "call", "returned" or "raised"
    j_sel,          \* a simple-selector string given to _split_selector
    j_strip,        \* argument strip of a strip_selector_parts call on [j_sel]
    j_joined,       \* _join_selector_parts(_split_selector(j_sel))
    j_stripped,     \* value returned by strip_selector_parts([j_sel], j_strip)
    j_pc            \* position: "split", "strip" or "done"

vars == <<rules, trie, decllist_cache, matches_cache, inline, rulesets, next_uid,
          spec_cache, trim_cache, m_elem, m_style, m_pc, m_result,
          e_decls, e_dict, e_i, e_pc, p_text, p_pc,
          j_sel, j_strip, j_joined, j_stripped, j_pc>>

sheet_vars == <<rules, trie, decllist_cache, matches_cache, inline, rulesets, next_uid,
                spec_cache, trim_cache>>

match_vars == <<m_elem, m_style, m_pc, m_result>>

expand_vars == <<e_decls, e_dict, e_i, e_pc>>

parse_vars == <<p_text, p_pc>>

join_vars == <<j_sel, j_strip, j_joined, j_stripped, j_pc>>

\* the variables of the calls checked on their own
call_vars == <<match_vars, expand_vars, parse_vars, join_vars>>

----------------------------------------------------------------------------
(* Bounds *)

MaxChain == 3        \* longest element chain drawn for a match_selector call
MaxStyleParts == 3   \* most simple selectors in a style selector drawn for a call
MaxUid == 2          \* rule sets constructed in one run
MaxRules == 2        \* longest rule list an append may produce

----------------------------------------------------------------------------
(* Generic helpers *)

Range(f) == {f[i] : i \in DOMAIN f}

Last(s) == s[Len(s)]

Front(s) == SubSeq(s, 1, Len(s) - 1)

EmptyMap == [k \in {} |-> ""]

\* a set of strings as a sequence, in one fixed iteration order
RECURSIVE SetToSeq(_)
SetToSeq(S) ==
    IF S = {} THEN <<>>
    ELSE LET x == CHOOSE y \in S : TRUE
         IN  <<x>> \o SetToSeq(S \ {x})

----------------------------------------------------------------------------
(* Selector strings *)

F(t, n) == [t |-> t, n |-> n, v |-> ""]

FV(k, val) == [t |-> "[", n |-> k, v |-> val]

Gt == <<F("", ">")>>

\* the selector strings 'div', 'span', 'p', '*', 'span#a' and '' (a text node)
sDiv == <<F("", "div")>>

sSpan == <<F("", "span")>>

sP == <<F("", "p")>>

sStar == <<F("", "*")>>

sText == <<>>

sSpanA == <<F("", "span"), F("#", "a")>>

\* p = {'type':'', 'class':set(), 'id':'', 'pseudoelement':set(), ...}
EmptyPart ==
    [type |-> "", class |-> {}, id |-> "", pseudoelement |-> {},
     pseudoclass |-> {}, attribs |-> {}, attribvals |-> EmptyMap]

\* one iteration of `for part in selector_splitter.finditer(sel)`
SplitStep(p, tok) ==
    CASE tok.t = ""   -> [p EXCEPT !.type = tok.n]
      [] tok.t = "."  -> [p EXCEPT !.class = @ \cup {tok.n}]
      [] tok.t = "#"  -> [p EXCEPT !.id = tok.n]
      [] tok.t = ":"  -> [p EXCEPT !.pseudoclass = @ \cup {tok.n}]
      [] tok.t = "::" -> [p EXCEPT !.pseudoelement = @ \cup {tok.n}]
      [] tok.t = "["  ->
            IF tok.v = "" THEN [p EXCEPT !.attribs = @ \cup {tok.n}]
            ELSE [p EXCEPT !.attribvals =
                    [k \in (DOMAIN @) \cup {tok.n} |-> IF k = tok.n THEN tok.v ELSE @[k]]]

RECURSIVE SplitFrom(_, _, _)
SplitFrom(sel, i, p) ==
    IF i > Len(sel) THEN p ELSE SplitFrom(sel, i + 1, SplitStep(p, sel[i]))

\* p['names']: every identifying name of the part
NamesOf(p) ==
    p.class \cup p.pseudoelement \cup p.pseudoclass \cup p.attribs \cup (DOMAIN p.attribvals)
      \cup (IF p.type \notin {"*", ">"} THEN {p.type} ELSE {})
      \cup (IF p.id # "" THEN {p.id} ELSE {})

_split_selector(sel) ==
    LET p == SplitFrom(sel, 1, EmptyPart)
    IN  [type |-> p.type, class |-> p.class, id |-> p.id,
         pseudoelement |-> p.pseudoelement, pseudoclass |-> p.pseudoclass,
         attribs |-> p.attribs, attribvals |-> p.attribvals, names |-> NamesOf(p)]

SplitAll(selector) == [i \in 1..Len(selector) |-> _split_selector(selector[i])]

_join_selector_parts(p) ==
    <<F("", IF p.type # "" THEN p.type ELSE "*")>>
      \o [i \in 1..Cardinality(p.class) |-> F(".", SetToSeq(p.class)[i])]
      \o (IF p.id # "" THEN <<F("#", p.id)>> ELSE <<>>)
      \o [i \in 1..Cardinality(p.pseudoclass) |-> F(":", SetToSeq(p.pseudoclass)[i])]
      \o [i \in 1..Cardinality(p.pseudoelement) |-> F(":", SetToSeq(p.pseudoelement)[i])]
      \o [i \in 1..Cardinality(p.attribs) |-> F("[", SetToSeq(p.attribs)[i])]
      \o [i \in 1..Cardinality(DOMAIN p.attribvals) |->
            FV(SetToSeq(DOMAIN p.attribvals)[i], p.attribvals[SetToSeq(DOMAIN p.attribvals)[i]])]

----------------------------------------------------------------------------
(* The recursive matcher *)

\* the pre-check with the end test made in both modes
_match_selector_approx_end(parts_elem, parts_style, check_end) ==
    LET names_elem  == UNION {parts_elem[i].names : i \in DOMAIN parts_elem}
        names_style == UNION {parts_style[i].names : i \in DOMAIN parts_style} \ {"*", ">"}
    IN  IF Last(parts_style).type \notin {"*", ">"}
           /\ Last(parts_elem).type # Last(parts_style).type
        THEN FALSE
        ELSE IF Last(parts_style).id # "" /\ Last(parts_elem).id # Last(parts_style).id
        THEN FALSE
        ELSE names_style \subseteq names_elem

_match_selector_approx(parts_elem, parts_style, check_end) ==
    LET names_elem  == UNION {parts_elem[i].names : i \in DOMAIN parts_elem}
        names_style == UNION {parts_style[i].names : i \in DOMAIN parts_style} \ {"*", ">"}
    IN  IF check_end /\ Last(parts_style).type \notin {"*", ">"}
           /\ Last(parts_elem).type # Last(parts_style).type
        THEN FALSE
        ELSE IF check_end /\ Last(parts_style).id # ""
                /\ Last(parts_elem).id # Last(parts_style).id
        THEN FALSE
        ELSE names_style \subseteq names_elem

_match_selector_parts(ap, bp) ==
    /\ ((bp.type = "*" /\ ap.type # "") \/ ap.type = bp.type)
    /\ (bp.id = "" \/ ap.id = bp.id)
    /\ bp.class \subseteq ap.class
    /\ bp.pseudoelement \subseteq ap.pseudoelement
    /\ bp.pseudoclass \subseteq ap.pseudoclass
    /\ bp.attribs \subseteq ap.attribs
    /\ \A key \in DOMAIN bp.attribvals :
          key \in DOMAIN ap.attribvals /\ ap.attribvals[key] = bp.attribvals[key]

\* _match_selector with the child combinator treated as a descendant combinator
RECURSIVE _match_selector_desc(_, _, _, _, _)
_match_selector_desc(sel_elem, pts_elem, sel_style, pts_style, cont) ==
    IF Len(sel_style) = 0 THEN TRUE
    ELSE IF Len(sel_elem) = 0 THEN FALSE
    ELSE IF Last(sel_style) = Gt
    THEN _match_selector_desc(sel_elem, pts_elem, Front(sel_style), Front(pts_style), TRUE)
    ELSE IF ~_match_selector_approx(pts_elem, pts_style, ~cont) THEN FALSE
    ELSE IF _match_selector_parts(Last(pts_elem), Last(pts_style))
            /\ _match_selector_desc(Front(sel_elem), Front(pts_elem),
                                    Front(sel_style), Front(pts_style), TRUE)
    THEN TRUE
    ELSE IF ~cont THEN FALSE
    ELSE _match_selector_desc(Front(sel_elem), Front(pts_elem), sel_style, pts_style, TRUE)

RECURSIVE _match_selector(_, _, _, _, _)
_match_selector(sel_elem, pts_elem, sel_style, pts_style, cont) ==
    IF Len(sel_style) = 0 THEN TRUE
    ELSE IF Len(sel_elem) = 0 THEN FALSE
    ELSE IF Last(sel_style) = Gt
    THEN _match_selector(sel_elem, pts_elem, Front(sel_style), Front(pts_style), FALSE)
    ELSE IF ~_match_selector_approx(pts_elem, pts_style, ~cont) THEN FALSE
    ELSE IF _match_selector_parts(Last(pts_elem), Last(pts_style))
            /\ _match_selector(Front(sel_elem), Front(pts_elem),
                               Front(sel_style), Front(pts_style), TRUE)
    THEN TRUE
    ELSE IF ~cont THEN FALSE
    ELSE _match_selector(Front(sel_elem), Front(pts_elem), sel_style, pts_style, TRUE)

\* the seven facets a strip set can name
StripPart(p, strip) ==
    [type          |-> IF "type" \in strip THEN "*" ELSE p.type,
     id            |-> IF "id" \in strip THEN "" ELSE p.id,
     class         |-> IF "classes" \in strip THEN {} ELSE p.class,
     pseudoelement |-> IF "pseudoelements" \in strip THEN {} ELSE p.pseudoelement,
     pseudoclass   |-> IF "pseudoclasses" \in strip THEN {} ELSE p.pseudoclass,
     attribs       |-> IF "attributes" \in strip THEN {} ELSE p.attribs,
     attribvals    |-> IF "attributevalues" \in strip THEN EmptyMap ELSE p.attribvals]

strip_selector_parts(selector, strip) ==
    IF strip = {} THEN selector
    ELSE [i \in 1..Len(selector) |->
            _join_selector_parts(StripPart(_split_selector(selector[i]), strip))]

match_selector(sel_elem, sel_style, strip) ==
    LET se == strip_selector_parts(sel_elem, strip)
        ss == strip_selector_parts(sel_style, strip)
    IN  _match_selector(se, SplitAll(se), ss, SplitAll(ss), FALSE)

----------------------------------------------------------------------------
(* Rule sets, specificity and the selector trie *)

\* UI_Style_RuleSet.match(sel_elem, strip): any selector of the rule matches.
\* _match_cache memoises it per (sel_elem, strip); a rule's selectors never change,
\* so the cached answer is the computed one.
match(rs, sel_elem, strip) ==
    \E i \in 1..Len(rs.selectors) : match_selector(sel_elem, rs.selectors[i], strip)

\* the tuple computed on a miss of selector_specificity._cache
SpecificityTuple(selector, uid, inl) ==
    LET parts == SplitAll(selector)
        P     == DOMAIN parts
        b     == Cardinality({i \in P : parts[i].id # ""})
        cnt(i) == Cardinality(parts[i].class) + Cardinality(parts[i].pseudoclass)
                    + Cardinality(parts[i].attribs) + Cardinality(DOMAIN parts[i].attribvals)
        d     == Cardinality({i \in P : parts[i].type \notin {"", "*", ">"}})
        Sum[i \in 0..Len(parts)] == IF i = 0 THEN 0 ELSE Sum[i - 1] + cnt(i)
    IN  <<IF inl THEN 1 ELSE 0, b, Sum[Len(parts)], d, uid>>

\* k = f'{selector} {inline}'
SpecKey(selector, inl) == <<selector, inl>>

\* selector_specificity: the tuple returned under cache `cache`
selector_specificity(selector, uid, inl, cache) ==
    IF SpecKey(selector, inl) \in DOMAIN cache
    THEN cache[SpecKey(selector, inl)]
    ELSE SpecificityTuple(selector, uid, inl)

\* a cache whose entry is rewritten with the uid of every call
SpecCacheAfter_rewrite(selector, uid, inl, cache) ==
    [k \in (DOMAIN cache) \cup {SpecKey(selector, inl)} |->
        IF k = SpecKey(selector, inl) THEN SpecificityTuple(selector, uid, inl)
        ELSE cache[k]]

\* the cache after that call
SpecCacheAfter(selector, uid, inl, cache) ==
    IF SpecKey(selector, inl) \in DOMAIN cache THEN cache
    ELSE [k \in (DOMAIN cache) \cup {SpecKey(selector, inl)} |->
            IF k = SpecKey(selector, inl) THEN SpecificityTuple(selector, uid, inl)
            ELSE cache[k]]

\* trie edges are labelled by facet tokens; the two combinator edges
EdgeDesc == F("", " ")

EdgeChild == F("", ">")

\* the edges optimize descends for one simple selector: type, id, classes,
\* pseudoelements, pseudoclasses, attributes, attribute values
PartEdges(p) ==
    (IF p.type # "" THEN <<F("", p.type)>> ELSE <<>>)
      \o (IF p.id # "" THEN <<F("#", p.id)>> ELSE <<>>)
      \o [i \in 1..Cardinality(p.class) |-> F(".", SetToSeq(p.class)[i])]
      \o [i \in 1..Cardinality(p.pseudoelement) |-> F("::", SetToSeq(p.pseudoelement)[i])]
      \o [i \in 1..Cardinality(p.pseudoclass) |-> F(":", SetToSeq(p.pseudoclass)[i])]
      \o [i \in 1..Cardinality(p.attribs) |-> F("[", SetToSeq(p.attribs)[i])]
      \o [i \in 1..Cardinality(DOMAIN p.attribvals) |->
            FV(SetToSeq(DOMAIN p.attribvals)[i], p.attribvals[SetToSeq(DOMAIN p.attribvals)[i]])]

\* the path of edges optimize inserts for a selector, subject first;
\* at_root: no edge taken yet (node_cur == self._trie)
RECURSIVE TriePath(_, _)
TriePath(parts, at_root) ==
    IF Len(parts) = 0 THEN <<>>
    ELSE IF at_root
    THEN LET e == PartEdges(Last(parts))
         IN  e \o TriePath(Front(parts), Len(e) = 0)
    ELSE IF Last(parts).type = ">"
    THEN <<EdgeChild>> \o PartEdges(parts[Len(parts) - 1])
           \o TriePath(SubSeq(parts, 1, Len(parts) - 2), FALSE)
    ELSE <<EdgeDesc>> \o PartEdges(Last(parts)) \o TriePath(Front(parts), FALSE)

\* the (rule, selector) pairs optimize inserts, in insertion order
RECURSIVE SelectorsOf(_, _, _)
SelectorsOf(store, uids, i) ==
    IF i > Len(uids) THEN <<>>
    ELSE [j \in 1..Len(store[uids[i]].selectors) |->
            [uid |-> uids[i], selector |-> store[uids[i]].selectors[j]]]
         \o SelectorsOf(store, uids, i + 1)

\* the insertion loop of optimize: trie entries and specificity cache after pairs i..
RECURSIVE InsertAll(_, _, _, _, _)
InsertAll(pairs, i, inl, cache, entries) ==
    IF i > Len(pairs) THEN [entries |-> entries, cache |-> cache]
    ELSE InsertAll(pairs, i + 1, inl,
                   SpecCacheAfter(pairs[i].selector, pairs[i].uid, inl, cache),
                   Append(entries,
                          [path |-> TriePath(SplitAll(pairs[i].selector), TRUE),
                           spec |-> selector_specificity(pairs[i].selector, pairs[i].uid, inl, cache),
                           uid  |-> pairs[i].uid]))

NoTrie == [built |-> FALSE, entries |-> <<>>]

\* optimize: the trie and the specificity cache it leaves
optimize(tr, uids, store, inl, cache) ==
    IF tr.built THEN [trie |-> tr, cache |-> cache]
    ELSE LET r == InsertAll(SelectorsOf(store, uids, 1), 1, inl, cache, <<>>)
         IN  [trie |-> [built |-> TRUE, entries |-> r.entries], cache |-> r.cache]

IsPrefix(p, q) == Len(p) <= Len(q) /\ SubSeq(q, 1, Len(p)) = p

RulesetsKey == F("__", "rulesets")

\* the key entry i puts into the node at path p (p a prefix of the entry's path)
KeyAt(entries, i, p) ==
    IF Len(entries[i].path) = Len(p) THEN RulesetsKey ELSE entries[i].path[Len(p) + 1]

\* entry i is the one that inserted its key into node p (dict insertion order)
Introduces(entries, i, p) ==
    /\ IsPrefix(p, entries[i].path)
    /\ \A j \in 1..(i - 1) :
          IsPrefix(p, entries[j].path) => KeyAt(entries, j, p) # KeyAt(entries, i, p)

\* node_cur['__rulesets'] of the node at path p
RulesetsAt(entries, p) ==
    LET idx == {i \in 1..Len(entries) : entries[i].path = p}
        RECURSIVE Take(_)
        Take(i) == IF i > Len(entries) THEN <<>>
                   ELSE (IF i \in idx THEN <<[spec |-> entries[i].spec, uid |-> entries[i].uid]>>
                         ELSE <<>>) \o Take(i + 1)
    IN  Take(1)

\* the test of one facet edge against the current element part
EdgePasses(edge, part) ==
    CASE edge.t = "" /\ edge.n = "*" -> TRUE
      [] edge.t = "#"  -> edge.n = part.id
      [] edge.t = "."  -> edge.n \in part.class
      [] edge.t = "::" -> edge.n \in part.pseudoelement
      [] edge.t = ":"  -> edge.n \in part.pseudoclass
      [] edge.t = "[" /\ edge.v = "" -> edge.n \in part.attribs
      [] edge.t = "[" /\ edge.v # "" ->
            edge.n \in DOMAIN part.attribvals /\ part.attribvals[edge.n] = edge.v
      [] OTHER -> edge.n = part.type

Raised == [raised |-> TRUE, out |-> <<>>]

Returned(x) == [raised |-> FALSE, out |-> x]

\* r1 then r2, an exception in either ends the walk
Then(r1, r2) ==
    IF r1.raised \/ r2.raised THEN Raised ELSE Returned(r1.out \o r2.out)

\* the inner function m of get_matching_rules on the node at path p: keys i.. of the
\* node in dict order; the ` ` edge tries the ancestors k, k-1, .. 1
RECURSIVE m(_, _, _, _, _)
RECURSIVE m_desc(_, _, _, _)
m(entries, p, part, parts, i) ==
    IF i > Len(entries) THEN Returned(<<>>)
    ELSE IF ~Introduces(entries, i, p) THEN m(entries, p, part, parts, i + 1)
    ELSE LET edge == KeyAt(entries, i, p)
             here ==
               IF edge = RulesetsKey THEN Returned(RulesetsAt(entries, p))
               ELSE IF edge = EdgeDesc THEN m_desc(entries, Append(p, edge), parts, Len(parts))
               ELSE IF edge = EdgeChild
               THEN (IF Len(parts) = 0 THEN Raised
                     ELSE m(entries, Append(p, edge), Last(parts), Front(parts), 1))
               ELSE IF EdgePasses(edge, part)
               THEN m(entries, Append(p, edge), part, parts, 1)
               ELSE Returned(<<>>)
         IN  IF here.raised THEN Raised
             ELSE Then(here, m(entries, p, part, parts, i + 1))
m_desc(entries, p, parts, k) ==
    IF k = 0 THEN Returned(<<>>)
    ELSE LET here == m(entries, p, parts[k], SubSeq(parts, 1, k - 1), 1)
         IN  IF here.raised THEN Raised
             ELSE Then(here, m_desc(entries, p, parts, k - 1))

\* lexicographic order of specificity tuples
RECURSIVE TupleLess(_, _, _)
TupleLess(a, b, i) ==
    IF i > Len(a) THEN FALSE
    ELSE IF a[i] < b[i] THEN TRUE
    ELSE IF a[i] > b[i] THEN FALSE
    ELSE TupleLess(a, b, i + 1)

\* the sort key of rules.sort(key=lambda sr: sr[0])
SortKey(sr) == sr.spec

\* insertion of x into the sorted list l after every entry that is not greater
RECURSIVE InsertSorted(_, _)
InsertSorted(l, x) ==
    IF Len(l) = 0 THEN <<x>>
    ELSE IF TupleLess(SortKey(x), SortKey(Last(l)), 1)
    THEN Append(InsertSorted(Front(l), x), Last(l))
    ELSE Append(l, x)

\* list.sort: stable, ascending
RECURSIVE StableSort(_)
StableSort(l) == IF Len(l) = 0 THEN <<>> ELSE InsertSorted(StableSort(Front(l)), Last(l))

\* get_matching_rules on a built trie: the rule uids, or an IndexError
get_matching_rules(entries, selector) ==
    LET parts == SplitAll(selector)
        r     == m(entries, <<>>, Last(parts), Front(parts), 1)
    IN  IF r.raised THEN Raised
        ELSE LET sorted == StableSort(r.out)
             IN  Returned([i \in 1..Len(sorted) |-> sorted[i].uid])

----------------------------------------------------------------------------
(* Declarations and their expansion *)

\* a declaration value is one token value or a tuple of them; a token value is
\* a NumberUnit ("num"), a Color ("color") or a string ("str")
Atom(ty, x) == [ty |-> ty, v |-> x]

Scalar(a) == [tuple |-> FALSE, items |-> <<a>>]

Tuple(as) == [tuple |-> TRUE, items |-> as]

Str(x) == Scalar(Atom("str", x))

Num(x) == Scalar(Atom("num", x))

Col(x) == Scalar(Atom("color", x))

UI_Style_Declaration(prop, val) == [property |-> prop, value |-> val]

\* a Python dict: key/value pairs in insertion order
DictKeys(d) == {d[i].k : i \in DOMAIN d}

DictGet(d, key) == d[CHOOSE i \in DOMAIN d : d[i].k = key].v

\* an assignment that replaces the dict by the one pair assigned
DictSet_only(d, key, val) == <<[k |-> key, v |-> val]>>

DictSet(d, key, val) ==
    IF key \in DictKeys(d)
    THEN [i \in DOMAIN d |-> IF d[i].k = key THEN [k |-> key, v |-> val] ELSE d[i]]
    ELSE Append(d, [k |-> key, v |-> val])

\* _trbl_split with a 3-tuple (a, b, c) read as (a, b, c, a)
_trbl_split_first(v) ==
    IF ~v.tuple THEN <<v, v, v, v>>
    ELSE LET it == v.items
             l  == Len(it)
         IN  IF l = 1 THEN <<Scalar(it[1]), Scalar(it[1]), Scalar(it[1]), Scalar(it[1])>>
             ELSE IF l = 2 THEN <<Scalar(it[1]), Scalar(it[2]), Scalar(it[1]), Scalar(it[2])>>
             ELSE IF l = 3 THEN <<Scalar(it[1]), Scalar(it[2]), Scalar(it[3]), Scalar(it[1])>>
             ELSE <<Scalar(it[1]), Scalar(it[2]), Scalar(it[3]), Scalar(it[4])>>

_trbl_split(v) ==
    IF ~v.tuple THEN <<v, v, v, v>>
    ELSE LET it == v.items
             l  == Len(it)
         IN  IF l = 1 THEN <<Scalar(it[1]), Scalar(it[1]), Scalar(it[1]), Scalar(it[1])>>
             ELSE IF l = 2 THEN <<Scalar(it[1]), Scalar(it[2]), Scalar(it[1]), Scalar(it[2])>>
             ELSE IF l = 3 THEN <<Scalar(it[1]), Scalar(it[2]), Scalar(it[3]), Scalar(it[2])>>
             ELSE <<Scalar(it[1]), Scalar(it[2]), Scalar(it[3]), Scalar(it[4])>>

\* default_fonts['default'], which every entry of default_fonts equals
default_font == <<Str("normal"), Str("normal"), Str("12"), Str("sans-serif")>>

_font_split(vs) ==
    IF ~vs.tuple THEN default_font
    ELSE [i \in 1..4 |->
            IF i <= Len(vs.items) /\ vs.items[i].v # "" THEN Scalar(vs.items[i])
            ELSE default_font[i]]

\* the four assignments decllist[<prefix>-top<suffix>] .. decllist[<prefix>-left<suffix>]
SetSides(d, top, right, bottom, left, vals) ==
    DictSet(DictSet(DictSet(DictSet(d, top, vals[1]), right, vals[2]), bottom, vals[3]),
            left, vals[4])

\* the background loop over the values ev of v
RECURSIVE SetBackground(_, _, _)
SetBackground(d, items, i) ==
    IF i > Len(items) THEN d
    ELSE SetBackground(
           DictSet(d, IF items[i].ty = "color" THEN "background-color" ELSE "background-image",
                   Scalar(items[i])),
           items, i + 1)

\* one iteration of the loop of _expand_declarations
ExpandDecl(d, decl) ==
    LET p == decl.property
        v == decl.value
    IN  CASE p = "margin" ->
               SetSides(d, "margin-top", "margin-right", "margin-bottom", "margin-left",
                        _trbl_split(v))
          [] p = "padding" ->
               SetSides(d, "padding-top", "padding-right", "padding-bottom", "padding-left",
                        _trbl_split(v))
          [] p = "border" ->
               LET hasw == v.items[1].ty = "num"
                   d1   == IF hasw THEN DictSet(d, "border-width", Scalar(v.items[1])) ELSE d
                   rest == IF hasw THEN Tail(v.items) ELSE v.items
               IN  IF Len(rest) = 0 THEN d1
                   ELSE SetSides(d1, "border-top-color", "border-right-color",
                                 "border-bottom-color", "border-left-color",
                                 _trbl_split(Tuple(rest)))
          [] p = "border-color" ->
               SetSides(d, "border-top-color", "border-right-color",
                        "border-bottom-color", "border-left-color", _trbl_split(v))
          [] p = "font" ->
               LET vals == _font_split(v)
               IN  DictSet(DictSet(DictSet(DictSet(d, "font-style", vals[1]),
                                           "font-weight", vals[2]),
                                   "font-size", vals[3]),
                           "font-family", vals[4])
          [] p = "background" -> SetBackground(d, v.items, 1)
          [] p = "width" -> DictSet(d, "width", v)
          [] p = "height" ->
               DictSet(DictSet(DictSet(d, "height", v), "min-height", v), "max-height", v)
          [] p = "overflow" ->
               IF v = Str("scroll")
               THEN DictSet(DictSet(d, "overflow-x", Str("auto")), "overflow-y", Str("scroll"))
               ELSE DictSet(DictSet(d, "overflow-x", v), "overflow-y", v)
          [] OTHER -> DictSet(d, p, v)

RECURSIVE ExpandAll(_, _, _)
ExpandAll(d, decls, i) ==
    IF i > Len(decls) THEN d ELSE ExpandAll(ExpandDecl(d, decls[i]), decls, i + 1)

\* the filter that keeps every entry
DropInitial_keep(d) == d

\* { k:v for (k,v) in decllist.items() if v != 'initial' }
RECURSIVE DropInitial(_)
DropInitial(d) ==
    IF Len(d) = 0 THEN <<>>
    ELSE (IF Head(d).v # Str("initial") THEN <<Head(d)>> ELSE <<>>) \o DropInitial(Tail(d))

_expand_declarations(decls) == DropInitial(ExpandAll(<<>>, decls, 1))

----------------------------------------------------------------------------
(* Stylesheets: lookup, cascade and caches *)

Ext(f, key, val) == [x \in (DOMAIN f) \cup {key} |-> IF x = key THEN val ELSE f[x]]

\* [d for rule in matching for d in rule.decllist]
RECURSIVE DeclsOf(_, _, _)
DeclsOf(store, uids, i) ==
    IF i > Len(uids) THEN <<>> ELSE store[uids[i]].decllist \o DeclsOf(store, uids, i + 1)

\* get_decllist on a cache miss, after get_matching_rules returned r in the state
\* st1: the list is cached and returned, or the IndexError passes through
DecllistOfMatches(st1, s, selector, r, dl) ==
    IF r.raised THEN [st |-> st1, raised |-> TRUE, out |-> <<>>]
    ELSE [st |-> [st1 EXCEPT !.dl[s] = Ext(@, selector, dl)], raised |-> FALSE, out |-> dl]

DecllistAfterMatch(st1, s, selector, r) ==
    DecllistOfMatches(st1, s, selector, r, DeclsOf(st1.store, r.out, 1))

\* get_decllist on a cache miss, after self.optimize() returned o
DecllistAfterOptimize(st, s, selector, o) ==
    DecllistAfterMatch([st EXCEPT !.trie[s] = o.trie, !.spec = o.cache], s, selector,
                       get_matching_rules(o.trie.entries, selector))

\* get_decllist of stylesheet s in the state st = [rules, store, inline, trie, spec,
\* dl] (the rule lists, the rule sets, the inline flags, the tries, the specificity
\* cache, the declaration-list caches): the state it leaves and the list it
\* returns, or the IndexError of get_matching_rules
get_decllist(st, s, selector) ==
    IF Len(st.rules[s]) = 0 THEN [st |-> st, raised |-> FALSE, out |-> <<>>]
    ELSE IF selector \in DOMAIN st.dl[s]
    THEN [st |-> st, raised |-> FALSE, out |-> st.dl[s][selector]]
    ELSE DecllistAfterOptimize(st, s, selector,
             optimize(st.trie[s], st.rules[s], st.store, st.inline[s], st.spec))

\* the tail of the comprehension of compute_style: the declarations `first` of one
\* stylesheet in front of those of the stylesheets after it
PrependDecllist(first, rest) == [rest EXCEPT !.out = first \o @]

\* the comprehension of compute_style over stylings i..
RECURSIVE FullDecllist(_, _, _, _)
RECURSIVE FullDecllistAfter(_, _, _, _)
FullDecllist(st, selector, stylings, i) ==
    IF i > Len(stylings) THEN [st |-> st, raised |-> FALSE, out |-> <<>>]
    ELSE FullDecllistAfter(get_decllist(st, stylings[i], selector), selector, stylings, i)
FullDecllistAfter(r, selector, stylings, i) ==
    IF r.raised THEN r
    ELSE PrependDecllist(r.out, FullDecllist(r.st, selector, stylings, i + 1))

\* decllist = UI_Styling._expand_declarations(full_decllist)
ExpandResult(r) ==
    IF r.raised THEN r ELSE [r EXCEPT !.out = _expand_declarations(@)]

\* compute_style(selector, *stylings) called in the state st
compute_style(st, selector, stylings) ==
    ExpandResult(FullDecllist(st, selector, stylings, 1))

CurrentState ==
    [rules |-> rules, store |-> rulesets, inline |-> inline,
     trie |-> trie, spec |-> spec_cache, dl |-> decllist_cache]

\* any(rule.match(selector) for rule in self.rules)
AnyRuleMatches(uids, selector) ==
    \E i \in 1..Len(uids) : match(rulesets[uids[i]], selector, {})

\* _has_matches of stylesheet s under the match caches mc
_has_matches(mc, s, selector) ==
    IF Len(rules[s]) = 0 THEN FALSE
    ELSE IF selector \in DOMAIN mc[s] THEN mc[s][selector]
    ELSE AnyRuleMatches(rules[s], selector)

MatchesCacheAfter(mc, s, selector) ==
    IF Len(rules[s]) = 0 \/ selector \in DOMAIN mc[s] THEN mc
    ELSE [mc EXCEPT ![s] = Ext(@, selector, AnyRuleMatches(rules[s], selector))]

\* has_matches(selector, *stylings): any() stops at the first stylesheet that matches
RECURSIVE HasMatchesFrom(_, _, _, _)
HasMatchesFrom(mc, selector, stylings, i) ==
    IF i > Len(stylings) THEN [mc |-> mc, out |-> FALSE]
    ELSE IF _has_matches(mc, stylings[i], selector)
    THEN [mc |-> MatchesCacheAfter(mc, stylings[i], selector), out |-> TRUE]
    ELSE HasMatchesFrom(MatchesCacheAfter(mc, stylings[i], selector), selector, stylings, i + 1)

has_matches(selector, stylings) == HasMatchesFrom(matches_cache, selector, stylings, 1)

\* the strip set of trim_styling
TrimStrip == {"pseudoelements", "pseudoclasses", "attributes", "attributevalues"}

\* [rule for styling in stylings for rule in styling.rules if rule.match(nselector, strip)]
RECURSIVE Filter(_, _, _)
Filter(uids, nselector, i) ==
    IF i > Len(uids) THEN <<>>
    ELSE (IF match(rulesets[uids[i]], nselector, TrimStrip) THEN <<uids[i]>> ELSE <<>>)
           \o Filter(uids, nselector, i + 1)

RECURSIVE TrimmedRules(_, _, _)
TrimmedRules(stylings, nselector, i) ==
    IF i > Len(stylings) THEN <<>>
    ELSE Filter(rules[stylings[i]], nselector, 1) \o TrimmedRules(stylings, nselector, i + 1)

\* trim_styling(selector, *stylings): the rules of the stylesheet it returns
trim_styling(selector, stylings) ==
    LET nselector == strip_selector_parts(selector, TrimStrip)
    IN  IF nselector \in DOMAIN trim_cache THEN trim_cache[nselector]
        ELSE TrimmedRules(stylings, nselector, 1)

TrimCacheAfter(selector, stylings) ==
    LET nselector == strip_selector_parts(selector, TrimStrip)
    IN  IF nselector \in DOMAIN trim_cache THEN trim_cache
        ELSE Ext(trim_cache, nselector, TrimmedRules(stylings, nselector, 1))

----------------------------------------------------------------------------
(* The stylesheets, texts and element chains of a run *)

Sheets == {1, 2}

\* the argument lists *stylings of a call
StylingArgs == {<<1>>, <<2>>, <<1, 2>>, <<2, 1>>}

RuleSet(sels, decls) == [selectors |-> sels, decllist |-> decls]

\* span#a {color: red;}
RS_id == RuleSet(<<<<sSpanA>>>>, <<UI_Style_Declaration("color", Col("red"))>>)

\* div > span {color: green;}
RS_child == RuleSet(<<<<sDiv, Gt, sSpan>>>>, <<UI_Style_Declaration("color", Col("green"))>>)

\* a text: the rule sets from_lexer returns in order, and whether the rule set
\* after them fails to parse (the assert of the selector loop)
Text(sets, fails) == [sets |-> sets, fails |-> fails]

Texts ==
    { Text(<<RS_id, RS_child>>, FALSE),    \* span#a {color:red;} div > span {color:green;}
      Text(<<RS_id>>, FALSE),              \* span#a {color:red;}
      Text(<<RS_child>>, FALSE),           \* div > span {color:green;}
      Text(<<RS_child>>, TRUE),            \* div > span {color:green;} ;
      Text(<<>>, FALSE) }                  \* the empty text

\* the element chains [span#a] and [div, span#a]
Chains == { <<sSpanA>>, <<sDiv, sSpanA>> }

\* the chains compute_style is called with in a run
QueryChains == { <<sDiv, sSpanA>> }

\* the rule set object whose parse fails: rs.selectors = [[]], no declaration yet
Unparsed == RuleSet(<<<<>>>>, <<>>)

\* rule sets constructed by load_from_text(text): one per parsed rule set and
\* one for the rule set whose parse fails
Constructed(text) == Len(text.sets) + (IF text.fails THEN 1 ELSE 0)

\* no _expand_declarations call is under way
ExpandIdle == e_decls = <<>> /\ e_dict = <<>> /\ e_i = 0 /\ e_pc = "idle"

\* no split, join or strip call is under way
JoinIdle ==
    j_sel = <<>> /\ j_strip = {} /\ j_joined = <<>> /\ j_stripped = <<>> /\ j_pc = "idle"

\* no load_from_text call on a token sequence is under way, nor a split, join or
\* strip call
ParseIdle == p_text = <<>> /\ p_pc = "idle" /\ JoinIdle

Init ==
    /\ rules = [s \in Sheets |-> <<>>]
    /\ trie = [s \in Sheets |-> NoTrie]
    /\ decllist_cache = [s \in Sheets |-> <<>>]
    /\ matches_cache = [s \in Sheets |-> <<>>]
    /\ inline \in {f \in [Sheets -> BOOLEAN] : ~f[1]}
    /\ rulesets = <<>>
    /\ next_uid = 0
    /\ spec_cache = <<>>
    /\ trim_cache = <<>>
    /\ m_elem = <<>> /\ m_style = <<>> /\ m_pc = "idle" /\ m_result = FALSE
    /\ ExpandIdle
    /\ ParseIdle

\* clear_cache followed by self.rules = new_rules
\* (clear_cache resets _decllist_cache, trim_styling._cache and the strip cache)
clear_cache(s) ==
    /\ decllist_cache' = [decllist_cache EXCEPT ![s] = <<>>]
    /\ trim_cache' = <<>>

\* what load_from_text(text) does to stylesheet s, returning or raising
LoadRules(s, text) ==
    /\ clear_cache(s)
    /\ rules' = [rules EXCEPT ![s] = [i \in 1..Len(text.sets) |-> next_uid + i]]
    /\ rulesets' = rulesets \o text.sets \o (IF text.fails THEN <<Unparsed>> ELSE <<>>)
    /\ next_uid' = next_uid + Constructed(text)
    /\ UNCHANGED <<trie, matches_cache, inline, spec_cache>>

LoadFromText(s, text) ==
    /\ next_uid + Constructed(text) <= MaxUid
    /\ LoadRules(s, text)
    /\ UNCHANGED call_vars

\* s.append(other)
AppendStyling(s, other) ==
    /\ Len(rules[s]) + Len(rules[other]) <= MaxRules
    /\ clear_cache(s)
    /\ rules' = [rules EXCEPT ![s] = rules[s] \o rules[other]]
    /\ UNCHANGED <<trie, matches_cache, inline, rulesets, next_uid, spec_cache, call_vars>>

\* the stylesheet state a lookup leaves: the trie it built, the specificities
\* and declaration lists it cached
LookupLeaves(r) ==
    /\ trie' = r.st.trie
    /\ spec_cache' = r.st.spec
    /\ decllist_cache' = r.st.dl

ComputeStyle(selector, stylings) ==
    /\ LookupLeaves(compute_style(CurrentState, selector, stylings))
    /\ UNCHANGED <<rules, matches_cache, inline, rulesets, next_uid, trim_cache, call_vars>>

HasMatches(selector, stylings) ==
    /\ matches_cache' = has_matches(selector, stylings).mc
    /\ UNCHANGED <<rules, trie, decllist_cache, inline, rulesets, next_uid, spec_cache,
                   trim_cache, call_vars>>

TrimStyling(selector, stylings) ==
    /\ trim_cache' = TrimCacheAfter(selector, stylings)
    /\ UNCHANGED <<rules, trie, decllist_cache, matches_cache, inline, rulesets, next_uid,
                   spec_cache, call_vars>>

Next ==
    \/ \E s \in Sheets, text \in Texts : LoadFromText(s, text)
    \/ \E s \in Sheets, other \in Sheets : AppendStyling(s, other)
    \/ \E selector \in QueryChains, stylings \in StylingArgs : ComputeStyle(selector, stylings)
    \/ \E selector \in Chains, stylings \in StylingArgs : HasMatches(selector, stylings)
    \/ \E selector \in Chains, stylings \in StylingArgs : TrimStyling(selector, stylings)

Spec == Init /\ [][Next]_vars

\* compute_style touches the tries, the specificity cache and the declaration-list
\* caches only; has_matches the match caches only; trim_styling its own cache only
NextCascade ==
    \/ \E s \in Sheets, text \in Texts : LoadFromText(s, text)
    \/ \E s \in Sheets, other \in Sheets : AppendStyling(s, other)
    \/ \E selector \in QueryChains, stylings \in StylingArgs : ComputeStyle(selector, stylings)

SpecCascade == Init /\ [][NextCascade]_vars

NextHasMatches ==
    \/ \E s \in Sheets, text \in Texts : LoadFromText(s, text)
    \/ \E s \in Sheets, other \in Sheets : AppendStyling(s, other)
    \/ \E selector \in Chains, stylings \in StylingArgs : HasMatches(selector, stylings)

SpecHasMatches == Init /\ [][NextHasMatches]_vars

NextTrim ==
    \/ \E s \in Sheets, text \in Texts : LoadFromText(s, text)
    \/ \E s \in Sheets, other \in Sheets : AppendStyling(s, other)
    \/ \E selector \in Chains, stylings \in StylingArgs : TrimStyling(selector, stylings)

SpecTrim == Init /\ [][NextTrim]_vars

----------------------------------------------------------------------------
(* Calls of the recursive matcher on bounded chains *)

MatchElemStrs == {sDiv, sP, sSpan, sText}

MatchStyleStrs == {sDiv, sSpan, sStar}

SeqsUpTo(S, n) == UNION {[1..k -> S] : k \in 1..n}

\* parts joined by `>` where child[i] holds and by the descendant combinator otherwise
RECURSIVE Interleave(_, _, _)
Interleave(parts, child, i) ==
    IF i > Len(parts) THEN <<>>
    ELSE (IF i > 1 /\ child[i - 1] THEN <<Gt, parts[i]>> ELSE <<parts[i]>>)
           \o Interleave(parts, child, i + 1)

MatchElemChains == SeqsUpTo(MatchElemStrs, MaxChain)

MatchStyleSelectors ==
    UNION {{Interleave(parts, child, 1) : child \in [1..(Len(parts) - 1) -> BOOLEAN]} :
             parts \in SeqsUpTo(MatchStyleStrs, MaxStyleParts)}

InitSheetsIdle ==
    /\ rules = [s \in Sheets |-> <<>>]
    /\ trie = [s \in Sheets |-> NoTrie]
    /\ decllist_cache = [s \in Sheets |-> <<>>]
    /\ matches_cache = [s \in Sheets |-> <<>>]
    /\ inline = [s \in Sheets |-> FALSE]
    /\ rulesets = <<>>
    /\ next_uid = 0
    /\ spec_cache = <<>>
    /\ trim_cache = <<>>

InitSelector ==
    /\ InitSheetsIdle
    /\ m_elem \in MatchElemChains
    /\ m_style \in MatchStyleSelectors
    /\ m_pc = "call"
    /\ m_result = FALSE
    /\ ExpandIdle
    /\ ParseIdle

MatchSelector ==
    /\ m_pc = "call"
    /\ m_result' = match_selector(m_elem, m_style, {})
    /\ m_pc' = "done"
    /\ UNCHANGED <<m_elem, m_style, sheet_vars, expand_vars, parse_vars, join_vars>>

NextSelector == MatchSelector

SpecSelector == InitSelector /\ [][NextSelector]_vars

----------------------------------------------------------------------------
(* Calls of the recursive matcher on selectors with ids and classes *)

MaxApproxChain == 2   \* longest element chain drawn for a call
MaxApproxParts == 2   \* most simple selectors in a style selector drawn for a call

\* div.box
sDivBox == <<F("", "div"), F(".", "box")>>

\* *.box
sStarBox == <<F("", "*"), F(".", "box")>>

\* span.box#a
sSpanBoxA == <<F("", "span"), F(".", "box"), F("#", "a")>>

ApproxElemStrs == {sDiv, sDivBox, sSpanA, sSpanBoxA, sText}

ApproxStyleStrs == {sDiv, sDivBox, sSpanA, sStar, sStarBox}

ApproxElemChains == SeqsUpTo(ApproxElemStrs, MaxApproxChain)

ApproxStyleSelectors ==
    UNION {{Interleave(parts, child, 1) : child \in [1..(Len(parts) - 1) -> BOOLEAN]} :
             parts \in SeqsUpTo(ApproxStyleStrs, MaxApproxParts)}

InitApprox ==
    /\ InitSheetsIdle
    /\ m_elem \in ApproxElemChains
    /\ m_style \in ApproxStyleSelectors
    /\ m_pc = "call"
    /\ m_result = FALSE
    /\ ExpandIdle
    /\ ParseIdle

SpecApprox == InitApprox /\ [][NextSelector]_vars

----------------------------------------------------------------------------
(* Lookups in a one-rule stylesheet, over bounded selectors and chains *)

\* stylesheet 1 after load_from_text of `<m_style> {color: red;}`
InitLookup ==
    /\ m_elem \in MatchElemChains
    /\ m_style \in MatchStyleSelectors
    /\ m_pc = "lookup"
    /\ m_result = FALSE
    /\ ExpandIdle
    /\ ParseIdle
    /\ rules = [s \in Sheets |-> IF s = 1 THEN <<1>> ELSE <<>>]
    /\ rulesets = <<RuleSet(<<m_style>>, <<UI_Style_Declaration("color", Col("red"))>>)>>
    /\ next_uid = 1
    /\ trie = [s \in Sheets |-> NoTrie]
    /\ decllist_cache = [s \in Sheets |-> <<>>]
    /\ matches_cache = [s \in Sheets |-> <<>>]
    /\ inline = [s \in Sheets |-> FALSE]
    /\ spec_cache = <<>>
    /\ trim_cache = <<>>

LookupReturns(r) ==
    /\ LookupLeaves(r)
    /\ m_result' = ~r.raised

\* compute_style(m_elem, stylesheet 1); m_result: it returned (did not raise)
Lookup ==
    /\ m_pc = "lookup"
    /\ LookupReturns(compute_style(CurrentState, m_elem, <<1>>))
    /\ m_pc' = "looked"
    /\ UNCHANGED <<rules, matches_cache, inline, rulesets, next_uid, trim_cache, m_elem, m_style,
                   expand_vars, parse_vars, join_vars>>

NextLookup == Lookup

SpecLookup == InitLookup /\ [][NextLookup]_vars

----------------------------------------------------------------------------
(* Calls of _expand_declarations on bounded declaration lists *)

MaxDecls == 2        \* longest declaration list drawn for a call

Initial == Str("initial")

N(x) == Atom("num", x)

\* the values drawn for margin and padding: a scalar, `initial`, and tuples of one
\* to four values
TrblValues ==
    { Num("1"), Initial, Tuple(<<N("1")>>), Tuple(<<N("1"), N("2")>>),
      Tuple(<<N("1"), N("2"), N("3")>>), Tuple(<<N("1"), N("2"), N("3"), N("4")>>) }

Declarations ==
    {UI_Style_Declaration("margin", v) : v \in TrblValues}
      \cup {UI_Style_Declaration("padding", v) : v \in TrblValues}
      \cup {UI_Style_Declaration("margin", Tuple(<<Atom("str", "initial"), N("2")>>))}
      \cup {UI_Style_Declaration("margin-left", v) : v \in {Num("5"), Initial}}
      \cup {UI_Style_Declaration("border", v) :
              v \in {Num("1"), Col("red"), Tuple(<<N("1"), Atom("color", "red")>>), Initial}}
      \cup {UI_Style_Declaration("border-color", v) : v \in {Col("blue"), Initial}}
      \cup {UI_Style_Declaration("border-width", Num("2"))}
      \cup {UI_Style_Declaration("font", v) :
              v \in {Initial, Tuple(<<Atom("str", "italic"), Atom("str", "bold")>>)}}
      \cup {UI_Style_Declaration("background", v) : v \in {Col("red"), Initial}}
      \cup {UI_Style_Declaration("width", v) : v \in {Num("10"), Initial}}
      \cup {UI_Style_Declaration("height", v) : v \in {Num("10"), Initial}}
      \cup {UI_Style_Declaration("min-width", Num("3"))}
      \cup {UI_Style_Declaration("min-height", Num("3"))}
      \cup {UI_Style_Declaration("overflow", v) : v \in {Str("scroll"), Str("hidden"), Initial}}
      \cup {UI_Style_Declaration("color", v) : v \in {Col("red"), Initial}}

DeclLists == UNION {[1..k -> Declarations] : k \in 0..MaxDecls}

InitExpand ==
    /\ InitSheetsIdle
    /\ m_elem = <<>> /\ m_style = <<>> /\ m_pc = "idle" /\ m_result = FALSE
    /\ ParseIdle
    /\ e_decls \in DeclLists
    /\ e_dict = <<>>
    /\ e_i = 1
    /\ e_pc = "loop"

\* the loop iteration with the two commented-out assignments of the `width` branch
\* (min-width, max-width) carried out
ExpandStep_minmax ==
    /\ e_pc = "loop"
    /\ e_i <= Len(e_decls)
    /\ e_dict' = IF e_decls[e_i].property = "width"
                 THEN DictSet(DictSet(ExpandDecl(e_dict, e_decls[e_i]),
                                      "min-width", e_decls[e_i].value),
                              "max-width", e_decls[e_i].value)
                 ELSE ExpandDecl(e_dict, e_decls[e_i])
    /\ e_i' = e_i + 1
    /\ UNCHANGED <<e_decls, e_pc, sheet_vars, match_vars, parse_vars, join_vars>>

\* one iteration of `for decl in decls`
ExpandStep ==
    /\ e_pc = "loop"
    /\ e_i <= Len(e_decls)
    /\ e_dict' = ExpandDecl(e_dict, e_decls[e_i])
    /\ e_i' = e_i + 1
    /\ UNCHANGED <<e_decls, e_pc, sheet_vars, match_vars, parse_vars, join_vars>>

\* the filter after the loop, and the return
ExpandFilter ==
    /\ e_pc = "loop"
    /\ e_i > Len(e_decls)
    /\ e_dict' = DropInitial(e_dict)
    /\ e_pc' = "done"
    /\ UNCHANGED <<e_decls, e_i, sheet_vars, match_vars, parse_vars, join_vars>>

NextExpand == ExpandStep \/ ExpandFilter

SpecExpand == InitExpand /\ [][NextExpand]_vars

----------------------------------------------------------------------------
(* The lexer interface and the parsers *)

\* a token: the kinds of the token rules that match its text, and its value;
\* the value of a token of strings is Atom("str", text)
Token(kinds, val) == [t |-> kinds, v |-> val]

Sv(x) == Atom("str", x)

Special(x) == Token({"special"}, Sv(x))

tDot == Special(".")

tHash == Special("#")

tColon == Special(":")

tColons == Special("::")

tStar == Special("*")

tOpen == Special("{")

tClose == Special("}")

tSemi == Special(";")

tComma == Special(",")

tGt == Token({"special", "combinator"}, Sv(">"))

tDiv == Token({"id"}, Sv("div"))

tBox == Token({"id"}, Sv("box"))

tHover == Token({"pseudoclass", "id"}, Sv("hover"))

tBefore == Token({"pseudoelement", "id"}, Sv("before"))

tAttr == Token({"attribute"}, Sv("[x]"))

tMargin == Token({"key", "id"}, Sv("margin"))

tNum(x) == Token({"num"}, N(x))

tRed == Token({"color", "id"}, Atom("color", "red"))

\* what the lexer shows at the end of the input
Eof == Token({"eof"}, Sv("eof"))

peek(toks, pos) == IF pos <= Len(toks) THEN toks[pos] ELSE Eof

peek_v(toks, pos) == peek(toks, pos).v

peek_t(toks, pos) == peek(toks, pos).t

\* the result of a step of a parser: whether it returned, the position of the
\* lexer after it, and the value returned
Ok(pos, out) == [ok |-> TRUE, pos |-> pos, out |-> out]

ParseError == [ok |-> FALSE, pos |-> 0, out |-> <<>>]

\* match_v_v(vs): the next token when its value is one of vs, else an error
match_v_v(toks, pos, vs) ==
    IF pos <= Len(toks) /\ peek_v(toks, pos) \in vs THEN Ok(pos + 1, toks[pos].v)
    ELSE ParseError

\* match_t_v(t): the next token when its kinds include t, else an error
match_t_v(toks, pos, t) ==
    IF pos <= Len(toks) /\ t \in peek_t(toks, pos) THEN Ok(pos + 1, toks[pos].v)
    ELSE ParseError

\* next_v(): the next token whatever it is; an error at the end of the input
next_v(toks, pos) ==
    IF pos <= Len(toks) THEN Ok(pos + 1, toks[pos].v) ELSE ParseError

Markers == {".", "#", ":", "::"}

\* the facet tokens selector_splitter finds in the string that match_identifier
\* concatenated from the pieces e: a marker and the name after it are one facet,
\* '[x]' is the attribute facet x, any other piece is a type
RECURSIVE Facets(_, _)
Facets(e, i) ==
    IF i > Len(e) THEN <<>>
    ELSE IF e[i] \in Markers THEN <<F(e[i], e[i + 1])>> \o Facets(e, i + 2)
    ELSE IF e[i] = "[x]" THEN <<F("[", "x")>> \o Facets(e, i + 1)
    ELSE <<F("", e[i])>> \o Facets(e, i + 1)

\* e += match_v_v(marker); e += match_t_v(kind)
MarkedName(toks, pos, e, kind) ==
    IF match_t_v(toks, pos + 1, kind).ok
    THEN Ok(pos + 2, e \o <<toks[pos].v.v, toks[pos + 1].v.v>>)
    ELSE ParseError

\* the `while True` loop of match_identifier
RECURSIVE IdentifierTail(_, _, _)
IdentifierStep(toks, r) ==
    IF r.ok THEN IdentifierTail(toks, r.pos, r.out) ELSE ParseError

IdentifierTail(toks, pos, e) ==
    IF peek_v(toks, pos) \in {Sv("."), Sv("#")}
    THEN IdentifierStep(toks, MarkedName(toks, pos, e, "id"))
    ELSE IF peek_v(toks, pos) = Sv(":")
    THEN IdentifierStep(toks, MarkedName(toks, pos, e, "pseudoclass"))
    ELSE IF peek_v(toks, pos) = Sv("::")
    THEN IdentifierStep(toks, MarkedName(toks, pos, e, "pseudoelement"))
    ELSE IF "attribute" \in peek_t(toks, pos)
    THEN IdentifierTail(toks, pos + 1, e \o <<toks[pos].v.v>>)
    ELSE Ok(pos, e)

\* match_identifier(): the pieces of one simple selector
match_identifier(toks, pos) ==
    IF peek_v(toks, pos) \in {Sv("."), Sv("#"), Sv(":"), Sv("::")}
    THEN IdentifierTail(toks, pos, <<"*">>)
    ELSE IF peek_v(toks, pos) = Sv("*")
    THEN IdentifierTail(toks, pos + 1, <<"*">>)
    ELSE IF match_t_v(toks, pos, "id").ok
    THEN IdentifierTail(toks, pos + 1, <<toks[pos].v.v>>)
    ELSE ParseError

\* rs.selectors[-1].append(x)
AppendLast(sels, x) == [sels EXCEPT ![Len(sels)] = Append(@, x)]

\* the selector loop of UI_Style_RuleSet.from_lexer
RECURSIVE SelectorLoop(_, _, _)
AppendIdentifier(toks, r, sels) ==
    IF r.ok THEN SelectorLoop(toks, r.pos, AppendLast(sels, Facets(r.out, 1)))
    ELSE ParseError

SelectorLoop(toks, pos, sels) ==
    IF peek_v(toks, pos) = Sv("{") THEN Ok(pos, sels)
    ELSE IF peek_v(toks, pos) = Sv("*") \/ "id" \in peek_t(toks, pos)
    THEN AppendIdentifier(toks, match_identifier(toks, pos), sels)
    ELSE IF "combinator" \in peek_t(toks, pos)
    THEN AppendIdentifier(toks, match_identifier(toks, pos + 1),
                          AppendLast(sels, <<F("", toks[pos].v.v)>>))
    ELSE IF peek_v(toks, pos) = Sv(",")
    THEN SelectorLoop(toks, pos + 1, Append(sels, <<>>))
    ELSE ParseError

\* l = [v]; while peek_v() not in {';', '}'}: l.append(next_v())
RECURSIVE TupleLoop(_, _, _)
TupleLoop(toks, pos, l) ==
    IF peek_v(toks, pos) \in {Sv(";"), Sv("}")} THEN Ok(pos, l)
    ELSE IF next_v(toks, pos).ok THEN TupleLoop(toks, pos + 1, Append(l, toks[pos].v))
    ELSE ParseError

TupleValue(r) == IF r.ok THEN Ok(r.pos, Tuple(r.out)) ELSE ParseError

\* a declaration value read as a tuple whatever follows the first value
DeclValue_tuple(toks, v) ==
    IF ~v.ok THEN ParseError
    ELSE TupleValue(TupleLoop(toks, v.pos, <<v.out>>))

\* val of UI_Style_Declaration.from_lexer, v being the result of next_v()
DeclValue(toks, v) ==
    IF ~v.ok THEN ParseError
    ELSE IF peek_v(toks, v.pos) = Sv(";") THEN Ok(v.pos, Scalar(v.out))
    ELSE TupleValue(TupleLoop(toks, v.pos, <<v.out>>))

\* lexer.match_v_v(';'); return UI_Style_Declaration(prop, val)
DeclEnd(toks, prop, val) ==
    IF val.ok /\ match_v_v(toks, val.pos, {Sv(";")}).ok
    THEN Ok(val.pos + 1, UI_Style_Declaration(prop, val.out))
    ELSE ParseError

\* UI_Style_Declaration.from_lexer
Declaration_from_lexer(toks, pos) ==
    IF match_t_v(toks, pos, "key").ok /\ match_v_v(toks, pos + 1, {Sv(":")}).ok
    THEN DeclEnd(toks, toks[pos].v.v, DeclValue(toks, next_v(toks, pos + 2)))
    ELSE ParseError

\* the declaration loop of UI_Style_RuleSet.from_lexer and the match of '}'
RECURSIVE DeclLoop(_, _, _)
AppendDecl(toks, r, dl) ==
    IF r.ok THEN DeclLoop(toks, r.pos, Append(dl, r.out)) ELSE ParseError

DeclLoop(toks, pos, dl) ==
    IF peek_v(toks, pos) = Sv("}") THEN Ok(pos + 1, dl)
    ELSE IF peek_v(toks, pos) = Sv(";") THEN DeclLoop(toks, pos + 1, dl)
    ELSE AppendDecl(toks, Declaration_from_lexer(toks, pos), dl)

RuleSetOf(sel, decls) ==
    IF decls.ok THEN Ok(decls.pos, RuleSet(sel.out, decls.out)) ELSE ParseError

RuleSetBody(toks, sel) ==
    IF sel.ok THEN RuleSetOf(sel, DeclLoop(toks, sel.pos + 1, <<>>)) ELSE ParseError

\* UI_Style_RuleSet.from_lexer
RuleSet_from_lexer(toks, pos) == RuleSetBody(toks, SelectorLoop(toks, pos, <<<<>>>>))

\* while lexer.peek_t() != 'eof': self.rules.append(UI_Style_RuleSet.from_lexer(lexer))
RECURSIVE ParseRules(_, _, _)
AppendRule(toks, r, sets) ==
    IF r.ok THEN ParseRules(toks, r.pos, Append(sets, r.out)) ELSE Text(sets, TRUE)

ParseRules(toks, pos, sets) ==
    IF peek_t(toks, pos) = {"eof"} THEN Text(sets, FALSE)
    ELSE AppendRule(toks, RuleSet_from_lexer(toks, pos), sets)

\* the rule sets load_from_text constructs from a token sequence
Parsed(toks) == ParseRules(toks, 1, <<>>)

----------------------------------------------------------------------------
(* Calls of load_from_text on bounded token sequences *)

MaxSelToks == 3      \* most tokens drawn for the end of a selector group
MaxBodyToks == 4     \* most tokens drawn for the end of a declaration block

SelectorTokens ==
    {tDot, tHash, tColon, tColons, tStar, tGt, tComma, tDiv, tBox, tHover, tBefore, tAttr}

BodyTokens == {tMargin, tColon, tSemi, tClose, tNum("1"), tNum("2")}

\* {margin: 1 2;}
Block == <<tOpen, tMargin, tColon, tNum("1"), tNum("2"), tSemi, tClose>>

\* * {margin: 0;} .box {margin: 1 2;}
BoxText == <<tStar, tOpen, tMargin, tColon, tNum("0"), tSemi, tClose, tDot, tBox>> \o Block

\* * {margin: 0;} *.box {margin: 1 2;}
StarBoxText ==
    <<tStar, tOpen, tMargin, tColon, tNum("0"), tSemi, tClose, tStar, tDot, tBox>> \o Block

\* the texts drawn: {margin: 1 2;} after a selector group (tokens from the start
\* and after `div >`), tokens after `div {` and after `div {margin:`, and the two
\* texts above
ParseTexts ==
    {prefix \o sel \o Block : prefix \in {<<>>, <<tDiv, tGt>>},
                              sel \in {<<>>} \cup SeqsUpTo(SelectorTokens, MaxSelToks)}
      \cup {<<tDiv, tOpen>> \o body : body \in SeqsUpTo(BodyTokens, MaxBodyToks)}
      \cup {<<tDiv, tOpen, tMargin, tColon>> \o body : body \in SeqsUpTo(BodyTokens, MaxBodyToks)}
      \cup {BoxText, StarBoxText}

\* the chains queried after a load: the element <div class="box">
ParseChains == { <<sDivBox>> }

InitParse ==
    /\ InitSheetsIdle
    /\ m_elem = <<>> /\ m_style = <<>> /\ m_pc = "idle" /\ m_result = FALSE
    /\ ExpandIdle
    /\ JoinIdle
    /\ p_text \in ParseTexts
    /\ p_pc = "call"

\* load_from_text of the text on stylesheet 1
LoadFromTokens ==
    /\ p_pc = "call"
    /\ LoadRules(1, Parsed(p_text))
    /\ p_pc' = IF Parsed(p_text).fails THEN "raised" ELSE "returned"
    /\ UNCHANGED <<p_text, match_vars, expand_vars, join_vars>>

\* a chain of a loaded rule begins with a combinator: optimize reads parts[-2] of
\* a one-element list for it and raises IndexError before any lookup
LeadingCombinator ==
    \E i \in DOMAIN rulesets : \E j \in DOMAIN rulesets[i].selectors :
        /\ rulesets[i].selectors[j] # <<>>
        /\ rulesets[i].selectors[j][1] = Gt

\* compute_style(selector, stylesheet 1) after the load returned, for the loads
\* optimize can index
QueryLoaded(selector) ==
    /\ p_pc = "returned"
    /\ ~LeadingCombinator
    /\ ComputeStyle(selector, <<1>>)

NextParse ==
    \/ LoadFromTokens
    \/ \E selector \in ParseChains : QueryLoaded(selector)

SpecParse == InitParse /\ [][NextParse]_vars

----------------------------------------------------------------------------
(* Stylesheets constructed from texts, each once, and queried *)

\* the stylesheet objects of a run
ReparseSheets == {1, 2, 3}

\* span {color: red;}
RS_span == RuleSet(<<<<sSpan>>>>, <<UI_Style_Declaration("color", Col("red"))>>)

\* * > span {color: green;}
RS_anychild == RuleSet(<<<<sStar, Gt, sSpan>>>>, <<UI_Style_Declaration("color", Col("green"))>>)

ReparseTexts ==
    { Text(<<RS_span, RS_anychild>>, FALSE),   \* span {color:red;} * > span {color:green;}
      Text(<<RS_anychild>>, FALSE),            \* * > span {color:green;}
      Text(<<RS_span>>, FALSE) }               \* span {color:red;}

\* the element chains [span] and [div, span]
ReparseChains == { <<sSpan>>, <<sDiv, sSpan>> }

InitReparse ==
    /\ rules = [s \in ReparseSheets |-> <<>>]
    /\ trie = [s \in ReparseSheets |-> NoTrie]
    /\ decllist_cache = [s \in ReparseSheets |-> <<>>]
    /\ matches_cache = [s \in ReparseSheets |-> <<>>]
    /\ inline \in [ReparseSheets -> BOOLEAN]
    /\ rulesets = <<>>
    /\ next_uid = 0
    /\ spec_cache = <<>>
    /\ trim_cache = <<>>
    /\ m_elem = <<>> /\ m_style = <<>> /\ m_pc = "idle" /\ m_result = FALSE
    /\ ExpandIdle
    /\ ParseIdle

\* UI_Styling(lines=text, inline=inline[s]): the object s, not constructed before
NewStyling(s, text) ==
    /\ rules[s] = <<>>
    /\ LoadRules(s, text)
    /\ UNCHANGED call_vars

NextReparse ==
    \/ \E s \in ReparseSheets, text \in ReparseTexts : NewStyling(s, text)
    \/ \E selector \in ReparseChains, s \in ReparseSheets : ComputeStyle(selector, <<s>>)

SpecReparse == InitReparse /\ [][NextReparse]_vars

----------------------------------------------------------------------------
(* Calls of _split_selector, _join_selector_parts and strip_selector_parts *)

\* the facet tokens of a set of names under one marker, in a fixed order
FacetsOf(marker, names) == [i \in 1..Cardinality(names) |-> F(marker, SetToSeq(names)[i])]

\* the simple-selector strings drawn: a type or `*`, then classes of {c, d}, the
\* id a, the pseudoclass hover, the pseudoelement before, the attribute x and the
\* attribute value k="v", each present or not, as in  div.c#a:hover::before[x][k="v"]
JoinStrs ==
    { <<F("", ty)>> \o FacetsOf(".", cl) \o FacetsOf("#", id) \o FacetsOf(":", pc)
        \o FacetsOf("::", pe) \o FacetsOf("[", at)
        \o [i \in 1..Cardinality(av) |-> FV("k", "v")] :
        ty \in {"div", "*"}, cl \in SUBSET {"c", "d"}, id \in SUBSET {"a"},
        pc \in SUBSET {"hover"}, pe \in SUBSET {"before"}, at \in SUBSET {"x"},
        av \in SUBSET {"k"} }

StripNames ==
    {"type", "id", "classes", "pseudoelements", "pseudoclasses", "attributes", "attributevalues"}

\* the strip sets drawn: one facet, the set trim_styling uses, everything
StripSets == {{n} : n \in StripNames} \cup {TrimStrip, StripNames}

InitJoin ==
    /\ InitSheetsIdle
    /\ m_elem = <<>> /\ m_style = <<>> /\ m_pc = "idle" /\ m_result = FALSE
    /\ ExpandIdle
    /\ p_text = <<>> /\ p_pc = "idle"
    /\ j_sel \in JoinStrs
    /\ j_strip \in StripSets
    /\ j_joined = <<>>
    /\ j_stripped = <<>>
    /\ j_pc = "split"

\* p = _split_selector(j_sel); _join_selector_parts(p)
SplitJoin ==
    /\ j_pc = "split"
    /\ j_joined' = _join_selector_parts(_split_selector(j_sel))
    /\ j_pc' = "strip"
    /\ UNCHANGED <<j_sel, j_strip, j_stripped, sheet_vars, match_vars, expand_vars, parse_vars>>

\* strip_selector_parts([j_sel], j_strip)
StripSelector ==
    /\ j_pc = "strip"
    /\ j_stripped' = strip_selector_parts(<<j_sel>>, j_strip)
    /\ j_pc' = "done"
    /\ UNCHANGED <<j_sel, j_strip, j_joined, sheet_vars, match_vars, expand_vars, parse_vars>>

NextJoin == SplitJoin \/ StripSelector

SpecJoin == InitJoin /\ [][NextJoin]_vars

----------------------------------------------------------------------------
(* Lookups that compute the specificity of selectors with every facet *)

MaxCountParts == 2    \* most simple selectors in a style selector drawn

\* div, *, span#a, div.box, *.box, span.box#a, div::before, *:hover, div[x],
\* div[k="v"]
CountStrs ==
    { sDiv, sStar, sSpanA, sDivBox, sStarBox, sSpanBoxA,
      <<F("", "div"), F("::", "before")>>, <<F("", "*"), F(":", "hover")>>,
      <<F("", "div"), F("[", "x")>>, <<F("", "div"), FV("k", "v")>> }

CountSelectors ==
    UNION {{Interleave(parts, child, 1) : child \in [1..(Len(parts) - 1) -> BOOLEAN]} :
             parts \in SeqsUpTo(CountStrs, MaxCountParts)}

CountChains == { <<sDiv>>, <<sDiv, sSpanBoxA>> }

\* stylesheet 1 after load_from_text of `<m_style> {color: red;}`, inline or not
InitCounts ==
    /\ m_elem \in CountChains
    /\ m_style \in CountSelectors
    /\ m_pc = "lookup"
    /\ m_result = FALSE
    /\ ExpandIdle
    /\ ParseIdle
    /\ rules = [s \in Sheets |-> IF s = 1 THEN <<1>> ELSE <<>>]
    /\ rulesets = <<RuleSet(<<m_style>>, <<UI_Style_Declaration("color", Col("red"))>>)>>
    /\ next_uid = 1
    /\ trie = [s \in Sheets |-> NoTrie]
    /\ decllist_cache = [s \in Sheets |-> <<>>]
    /\ matches_cache = [s \in Sheets |-> <<>>]
    /\ inline \in {f \in [Sheets -> BOOLEAN] : ~f[2]}
    /\ spec_cache = <<>>
    /\ trim_cache = <<>>

SpecCounts == InitCounts /\ [][NextLookup]_vars

----------------------------------------------------------------------------
(* filter_styling of a stylesheet of one rule *)

\* the declarations of the rule filter_styling is called on: those drawn for
\* _expand_declarations, and min-height and max-height given after height
FilterDeclarations ==
    Declarations
      \cup {UI_Style_Declaration("min-height", Initial)}
      \cup {UI_Style_Declaration("max-height", Num("20"))}

\* span {<declarations>}
FilterTexts ==
    { Text(<<RuleSet(<<<<sSpan>>>>, decls)>>, FALSE) :
        decls \in UNION {[1..k -> FilterDeclarations] : k \in 0..MaxDecls} }

\* the chain filter_styling is called with
FilterChains == { <<sSpan>> }

\* for k,v in decllist.items(): rs.decllist.append(UI_Style_Declaration(k,v))
DictDecls(d) == [i \in DOMAIN d |-> UI_Style_Declaration(d[i].k, d[i].v)]

\* UI_Styling.from_decllist(decllist, selector) constructing stylesheet s
from_decllist(s, decllist, selector) ==
    /\ rulesets' = Append(rulesets, RuleSet(<<selector>>, DictDecls(decllist)))
    /\ next_uid' = next_uid + 1
    /\ rules' = [rules EXCEPT ![s] = <<next_uid + 1>>]

\* the end of filter_styling once compute_style gave r: the new stylesheet, or
\* the exception of the lookup
FilterFrom(s, selector, r) ==
    /\ LookupLeaves(r)
    /\ IF r.raised THEN UNCHANGED <<rules, rulesets, next_uid>>
       ELSE from_decllist(s, r.out, selector)

\* stylesheet 2 = stylesheet 1 .filter_styling(selector)
FilterStyling(selector) ==
    /\ rules[1] # <<>>
    /\ rules[2] = <<>>
    /\ FilterFrom(2, selector, compute_style(CurrentState, selector, <<1>>))
    /\ UNCHANGED <<matches_cache, inline, trim_cache, call_vars>>

InitFilter ==
    /\ InitSheetsIdle
    /\ m_elem = <<>> /\ m_style = <<>> /\ m_pc = "idle" /\ m_result = FALSE
    /\ ExpandIdle
    /\ ParseIdle

NextFilter ==
    \/ \E text \in FilterTexts : NewStyling(1, text)
    \/ \E selector \in FilterChains : FilterStyling(selector)

SpecFilter == InitFilter /\ [][NextFilter]_vars

----------------------------------------------------------------------------
(* C7: descendant and child semantics of the recursive matcher *)

\* positions of the simple selectors of a style selector (the entries that are not `>`)
PartPositions(sel_style) == {i \in 1..Len(sel_style) : sel_style[i] # Gt}

\* position of the j-th simple selector
RECURSIVE NthPart(_, _, _)
NthPart(sel_style, j, from) ==
    IF sel_style[from] # Gt
    THEN (IF j = 1 THEN from ELSE NthPart(sel_style, j - 1, from + 1))
    ELSE NthPart(sel_style, j, from + 1)

\* an assignment of style parts to element positions as the claim describes it
Assignable(sel_elem, sel_style) ==
    LET k == Cardinality(PartPositions(sel_style))
        n == Len(sel_elem)
        pos(j) == NthPart(sel_style, j, 1)
    IN  \E f \in [1..k -> 1..n] :
          /\ f[k] = n
          /\ \A j \in 1..(k - 1) : f[j] < f[j + 1]
          /\ \A j \in 1..(k - 1) : sel_style[pos(j) + 1] = Gt => f[j + 1] = f[j] + 1
          /\ \A j \in 1..k :
                _match_selector_parts(_split_selector(sel_elem[f[j]]),
                                      _split_selector(sel_style[pos(j)]))

\* C7: match_selector is true exactly when the style parts can be assigned to
\* element positions in increasing order, the subject on the last element, every
\* part matching its element structurally, parts joined by `>` on adjacent
\* elements; with the examples of the claim for the chains div,span and div,p,span.
C7_DescendantChild ==
    m_pc = "done" =>
      /\ m_result = Assignable(m_elem, m_style)
      /\ (m_elem = <<sDiv, sSpan>> /\ m_style = <<sDiv, sSpan>> => m_result)
      /\ (m_elem = <<sDiv, sSpan>> /\ m_style = <<sDiv, Gt, sSpan>> => m_result)
      /\ (m_elem = <<sDiv, sSpan>> /\ m_style = <<sDiv, Gt, sP>> => ~m_result)
      /\ (m_elem = <<sDiv, sP, sSpan>> /\ m_style = <<sDiv, sSpan>> => m_result)
      /\ (m_elem = <<sDiv, sP, sSpan>> /\ m_style = <<sDiv, Gt, sSpan>> => ~m_result)

\* a descendant selector matched by skipping an ancestor
C7_Witness ==
    /\ m_pc = "done"
    /\ m_elem = <<sDiv, sP, sSpan>>
    /\ m_style = <<sDiv, sSpan>>
    /\ m_result = TRUE

----------------------------------------------------------------------------
(* Properties of the cascade and the caches *)

\* the state a step leaves
StateAfter ==
    [rules |-> rules', store |-> rulesets', inline |-> inline',
     trie |-> trie', spec |-> spec_cache', dl |-> decllist_cache']

\* what a call returns: an exception or a value
Res(r) == [raised |-> r.raised, out |-> r.out]

\* the longhands a rule set writes, with the values it writes
LonghandsOf(rs) == ExpandAll(<<>>, rs.decllist, 1)

\* rule uid matches the chain and writes longhand p
MatchesAndSets(uid, c, p) ==
    match(rulesets[uid], c, {}) /\ p \in DictKeys(LonghandsOf(rulesets[uid]))

\* the longhands written by the rules uids
Longhands(uids) == UNION {DictKeys(LonghandsOf(rulesets[uids[i]])) : i \in DOMAIN uids}

\* compute_style of a stylesheet built afresh (no trie, no declaration-list cache)
\* that holds the rules uids of the store
FreshStyle(uids, store, inl, cache, c) ==
    IF Len(uids) = 0 THEN Returned(<<>>)
    ELSE LET o == optimize(NoTrie, uids, store, inl, cache)
             r == get_matching_rules(o.trie.entries, c)
         IN  IF r.raised THEN Raised
             ELSE Returned(_expand_declarations(DeclsOf(store, r.out, 1)))

\* C1: when two rules of a stylesheet match a chain and write the same longhand,
\* compute_style yields the value of the later one (the last such rule in load
\* order), whatever their selectors.
C1_CascadeOrder ==
    \A s \in Sheets, c \in Chains :
      \A i, j \in 1..Len(rules[s]) :
        \A p \in Longhands(rules[s]) :
          ( /\ i < j
            /\ MatchesAndSets(rules[s][i], c, p)
            /\ MatchesAndSets(rules[s][j], c, p)
            /\ \A k \in (j + 1)..Len(rules[s]) : ~MatchesAndSets(rules[s][k], c, p) )
          => LET r == compute_style(CurrentState, c, <<s>>)
             IN  /\ ~r.raised
                 /\ p \in DictKeys(r.out)
                 /\ DictGet(r.out, p) = DictGet(LonghandsOf(rulesets[rules[s][j]]), p)

\* the rules of the stylesheet that the recursive matcher accepts for the chain
RecursiveMatches(uids, c) == {uids[i] : i \in {k \in DOMAIN uids : match(rulesets[uids[k]], c, {})}}

\* [d for rule in self.rules if rule.match(selector) for d in rule.decllist]
RECURSIVE RecursiveDecllist(_, _, _)
RecursiveDecllist(uids, c, i) ==
    IF i > Len(uids) THEN <<>>
    ELSE (IF match(rulesets[uids[i]], c, {}) THEN rulesets[uids[i]].decllist ELSE <<>>)
           \o RecursiveDecllist(uids, c, i + 1)

\* C2: the rules the trie lookup returns for a chain are exactly the rules the
\* recursive matcher accepts, and compute_style gives the same map on both paths.
C2_IndexedRecursive ==
    m_pc = "looked" =>
      LET r == get_matching_rules(trie[1].entries, m_elem)
      IN  /\ ~r.raised
          /\ Range(r.out) = RecursiveMatches(rules[1], m_elem)
          /\ Res(compute_style(CurrentState, m_elem, <<1>>))
               = Returned(_expand_declarations(RecursiveDecllist(rules[1], m_elem, 1)))

\* C3: after s.append(other) compute_style(chain, s) is, for every chain, what a
\* freshly built stylesheet holding s's old rules followed by other's rules returns.
C3_AppendBarrier ==
    [][\A s \in Sheets, other \in Sheets :
         AppendStyling(s, other) =>
           \A c \in Chains :
             Res(compute_style(StateAfter, c, <<s>>))
               = FreshStyle(rules[s] \o rules[other], rulesets, inline[s], spec_cache, c)]_vars

\* C4: after a successful s.load_from_text(text) compute_style(chain, s) is, for
\* every chain, what a fresh stylesheet created from text returns.
C4_ReloadReplaces ==
    [][\A s \in Sheets, text \in Texts :
         (LoadFromText(s, text) /\ ~text.fails) =>
           \A c \in Chains :
             Res(compute_style(StateAfter, c, <<s>>))
               = FreshStyle([i \in 1..Len(text.sets) |-> Len(rulesets') + i],
                            rulesets' \o text.sets, inline[s], spec_cache, c)]_vars

\* C5: has_matches(chain, s) is true exactly when a rule now in s.rules matches chain.
C5_HasMatchesFresh ==
    \A c \in Chains, stylings \in StylingArgs :
      has_matches(c, stylings).out
        <=> \E i \in DOMAIN stylings : AnyRuleMatches(rules[stylings[i]], c)

\* C6: a load_from_text that aborts with a parse error leaves s.rules as it was.
C6_FailedLoadAtomic ==
    [][\A s \in Sheets, text \in Texts :
         (LoadFromText(s, text) /\ text.fails) => rules'[s] = rules[s]]_vars

\* C8: when s1 and s2 each hold a rule that matches the chain and writes longhand p,
\* compute_style(chain, s1, s2) yields for p a value written by s2.
C8_ArgumentOrder ==
    \A c \in Chains, s1 \in Sheets :
     \A s2 \in Sheets \ {s1} :
      \A p \in Longhands(rules[s1]) \cap Longhands(rules[s2]) :
        ( /\ \E i \in DOMAIN rules[s1] : MatchesAndSets(rules[s1][i], c, p)
          /\ \E i \in DOMAIN rules[s2] : MatchesAndSets(rules[s2][i], c, p) )
        => LET r == compute_style(CurrentState, c, <<s1, s2>>)
           IN  /\ ~r.raised
               /\ p \in DictKeys(r.out)
               /\ DictGet(r.out, p) \in
                    {DictGet(LonghandsOf(rulesets[rules[s2][i]]), p) :
                       i \in {k \in DOMAIN rules[s2] : MatchesAndSets(rules[s2][k], c, p)}}

\* C9: trim_styling(chain, stylings) returns every rule of the stylings passed
\* that matches the chain exactly.
C9_StripMonotone ==
    \A c \in Chains, stylings \in StylingArgs :
      \A i \in DOMAIN stylings :
        RecursiveMatches(rules[stylings[i]], c) \subseteq Range(trim_styling(c, stylings))

\* C10: a chain that matches no rule gets the empty declaration list and the
\* empty style map, without an exception.  Chains with a text node (an element
\* part of empty type) are left aside here: whether `*` matches one is where the
\* two matchers disagree (C2), and the statement fails without them.
C10_LookupMiss ==
    ( /\ m_pc = "looked"
      /\ ~AnyRuleMatches(rules[1], m_elem)
      /\ \A i \in DOMAIN m_elem : m_elem[i] # sText ) =>
      /\ m_result
      /\ Res(get_decllist(CurrentState, 1, m_elem)) = Returned(<<>>)
      /\ Res(compute_style(CurrentState, m_elem, <<1>>)) = Returned(<<>>)

----------------------------------------------------------------------------
(* Properties of the declaration expansion *)

\* the longhands of margin and padding, in the order top, right, bottom, left
SideKeys(p) ==
    IF p = "margin" THEN <<"margin-top", "margin-right", "margin-bottom", "margin-left">>
    ELSE <<"padding-top", "padding-right", "padding-bottom", "padding-left">>

\* which component of a tuple of length l goes to top, right, bottom, left
SideIndex(l) ==
    IF l = 1 THEN <<1, 1, 1, 1>>
    ELSE IF l = 2 THEN <<1, 2, 1, 2>>
    ELSE IF l = 3 THEN <<1, 2, 3, 2>>
    ELSE <<1, 2, 3, 4>>

\* the value the claim gives side k (1 top .. 4 left) for the declared value v
SideValue(v, k) ==
    IF ~v.tuple THEN v ELSE Scalar(v.items[SideIndex(Len(v.items))[k]])

Has(d, key, val) == key \in DictKeys(d) /\ DictGet(d, key) = val

\* C11: a `margin` or `padding` declaration with value v sets the four longhands
\* -top, -right, -bottom, -left: a scalar or 1-tuple gives all four the value,
\* (a,b) gives (a,b,a,b), (a,b,c) gives (a,b,c,b), (a,b,c,d) gives (a,b,c,d); the
\* result has no key `margin` or `padding`, and for a list of that one declaration
\* the result holds exactly these longhands (one whose value is `initial` is
\* removed by the final filter).
C11_TrblExpansion ==
    [][ /\ ( ExpandStep /\ e_decls[e_i].property \in {"margin", "padding"} ) =>
             \A k \in 1..4 :
               Has(e_dict', SideKeys(e_decls[e_i].property)[k], SideValue(e_decls[e_i].value, k))
        /\ ExpandFilter =>
             /\ DictKeys(e_dict') \cap {"margin", "padding"} = {}
             /\ ( Len(e_decls) = 1 /\ e_decls[1].property \in {"margin", "padding"} ) =>
                  /\ DictKeys(e_dict') \subseteq Range(SideKeys(e_decls[1].property))
                  /\ \A k \in 1..4 :
                       IF SideValue(e_decls[1].value, k) # Initial
                       THEN Has(e_dict', SideKeys(e_decls[1].property)[k],
                                SideValue(e_decls[1].value, k))
                       ELSE SideKeys(e_decls[1].property)[k] \notin DictKeys(e_dict')
      ]_vars

C11_Witness ==
    /\ e_pc = "done"
    /\ e_decls = <<UI_Style_Declaration("margin", Tuple(<<N("1"), N("2"), N("3")>>))>>
    /\ e_dict = << [k |-> "margin-top", v |-> Num("1")], [k |-> "margin-right", v |-> Num("2")],
                   [k |-> "margin-bottom", v |-> Num("3")], [k |-> "margin-left", v |-> Num("2")] >>

\* key is absent from both dicts or holds the same value in both
SameAt(d1, d2, key) ==
    /\ key \in DictKeys(d1) <=> key \in DictKeys(d2)
    /\ key \in DictKeys(d1) => DictGet(d1, key) = DictGet(d2, key)

\* the dict with the keys in order, all holding v
AllSet(keys, v) == [i \in 1..Len(keys) |-> [k |-> keys[i], v |-> v]]

Writes(decl) == ExpandDecl(<<>>, decl)

\* the declarations of the list that write key
Writers(decls, key) == {i \in DOMAIN decls : key \in DictKeys(Writes(decls[i]))}

Max(S) == CHOOSE x \in S : \A y \in S : y <= x

\* the value the last declaration that writes key gives it
LastWritten(decls, key) == DictGet(Writes(decls[Max(Writers(decls, key))]), key)

\* every key some declaration of the list writes
WrittenKeys(decls) == UNION {DictKeys(Writes(decls[i])) : i \in DOMAIN decls}

\* the result holds no `initial`, and holds a key exactly if the last value
\* written to it is not `initial`, with that value
NoInitialLastWrite ==
    /\ \A i \in DOMAIN e_dict : e_dict[i].v # Initial
    /\ DictKeys(e_dict) = {key \in WrittenKeys(e_decls) : LastWritten(e_decls, key) # Initial}
    /\ \A key \in DictKeys(e_dict) : DictGet(e_dict, key) = LastWritten(e_decls, key)

\* the longhands the expansion table gives a shorthand
ShorthandLonghands(p) ==
    CASE p = "margin" -> Range(SideKeys("margin"))
      [] p = "padding" -> Range(SideKeys("padding"))
      [] p = "border" -> {"border-width", "border-top-color", "border-right-color",
                          "border-bottom-color", "border-left-color"}
      [] p = "border-color" -> {"border-top-color", "border-right-color",
                                "border-bottom-color", "border-left-color"}
      [] p = "font" -> {"font-style", "font-weight", "font-size", "font-family"}
      [] p = "background" -> {"background-color", "background-image"}
      [] p = "height" -> {"height", "min-height", "max-height"}
      [] p = "overflow" -> {"overflow-x", "overflow-y"}
      [] OTHER -> {}

\* the call has returned and the last declaration of the list is `p: initial`
EndsWithInitial(p) ==
    /\ e_pc = "done"
    /\ Len(e_decls) > 0
    /\ Last(e_decls) = UI_Style_Declaration(p, Initial)

Shorthands ==
    {"margin", "padding", "border", "border-color", "font", "background", "height", "overflow"}

\* C13 as stated: the result never holds the literal `initial`; a property whose
\* last written value is `initial` is absent (no fall back to an earlier value);
\* and `initial` given to a shorthand removes every longhand it expands to.
C13_InitialRemoval_AsStated ==
    e_pc = "done" =>
      /\ NoInitialLastWrite
      /\ \A p \in Shorthands :
           EndsWithInitial(p) => DictKeys(e_dict) \cap ShorthandLonghands(p) = {}

\* C13 (amended): the result never holds the literal `initial`; a property whose
\* last written value is `initial` is absent (no fall back to an earlier value);
\* `initial` given to margin, padding, border-color, height or overflow removes
\* every longhand it expands to; `border: initial` removes the four border
\* colours and leaves border-width as it was; `background: initial` removes
\* background-image and leaves background-color as it was; `font: initial` sets
\* the four font longhands to the default font.
C13_InitialRemoval ==
    e_pc = "done" =>
      /\ NoInitialLastWrite
      /\ \A p \in {"margin", "padding", "border-color", "height", "overflow"} :
           EndsWithInitial(p) => DictKeys(e_dict) \cap ShorthandLonghands(p) = {}
      /\ EndsWithInitial("border") =>
           /\ DictKeys(e_dict) \cap ShorthandLonghands("border-color") = {}
           /\ SameAt(e_dict, _expand_declarations(Front(e_decls)), "border-width")
      /\ EndsWithInitial("background") =>
           /\ "background-image" \notin DictKeys(e_dict)
           /\ SameAt(e_dict, _expand_declarations(Front(e_decls)), "background-color")
      /\ EndsWithInitial("font") =>
           /\ Has(e_dict, "font-style", default_font[1])
           /\ Has(e_dict, "font-weight", default_font[2])
           /\ Has(e_dict, "font-size", default_font[3])
           /\ Has(e_dict, "font-family", default_font[4])

C13_Witness ==
    /\ e_pc = "done"
    /\ e_decls = <<UI_Style_Declaration("margin", Num("1")), UI_Style_Declaration("margin", Initial)>>
    /\ e_dict = <<>>

\* C20: the declarations are handled in list order, and each one overwrites exactly
\* the longhands it expands to and leaves every other key as it was; so
\* `margin-left: 5; margin: 1` gives margin-left = 1, `margin: 1; margin-left: 5`
\* gives top, right, bottom = 1 and left = 5, and `border: <width>` changes only
\* border-width and none of the four border colours.
C20_LastWriteFrame ==
    [][ /\ ExpandStep =>
             /\ e_i' = e_i + 1
             /\ \A key \in DictKeys(e_dict) \cup DictKeys(e_dict') \cup DictKeys(Writes(e_decls[e_i])) :
                  IF key \in DictKeys(Writes(e_decls[e_i]))
                  THEN Has(e_dict', key, DictGet(Writes(e_decls[e_i]), key))
                  ELSE SameAt(e_dict, e_dict', key)
        /\ ( ExpandStep /\ e_decls[e_i] = UI_Style_Declaration("border", Num("1")) ) =>
             /\ Has(e_dict', "border-width", Num("1"))
             /\ \A key \in (DictKeys(e_dict) \cup DictKeys(e_dict')) \ {"border-width"} :
                  SameAt(e_dict, e_dict', key)
        /\ ( ExpandFilter /\ e_decls = <<UI_Style_Declaration("margin-left", Num("5")),
                                         UI_Style_Declaration("margin", Num("1"))>> ) =>
             Has(e_dict', "margin-left", Num("1"))
        /\ ( ExpandFilter /\ e_decls = <<UI_Style_Declaration("margin", Num("1")),
                                         UI_Style_Declaration("margin-left", Num("5"))>> ) =>
             /\ Has(e_dict', "margin-top", Num("1"))
             /\ Has(e_dict', "margin-right", Num("1"))
             /\ Has(e_dict', "margin-bottom", Num("1"))
             /\ Has(e_dict', "margin-left", Num("5"))
      ]_vars

C20_Witness ==
    /\ e_pc = "done"
    /\ e_decls = <<UI_Style_Declaration("border-color", Col("blue")),
                   UI_Style_Declaration("border", Num("1"))>>
    /\ Has(e_dict, "border-width", Num("1"))
    /\ Has(e_dict, "border-left-color", Col("blue"))

----------------------------------------------------------------------------
(* Properties of the parsers *)

\* the marker and name pairs a simple selector without a type can begin with
MarkedNames == { <<tDot, tBox>>, <<tHash, tBox>>, <<tColon, tHover>>, <<tColons, tBefore>> }

\* the simple selector `*` followed by the marker and the name
StarWith(mn) == <<F("", "*"), F(mn[1].v.v, mn[2].v.v)>>

\* the load of the text returned and left the one rule of the one chain
LoadedChain(chain) ==
    /\ p_pc = "returned"
    /\ Len(rules[1]) = 1
    /\ rulesets[rules[1][1]].selectors = <<chain>>

\* margin-top = 1, margin-right = 2, margin-bottom = 1, margin-left = 2
Margin1212(d) ==
    /\ Has(d, "margin-top", Num("1"))
    /\ Has(d, "margin-right", Num("2"))
    /\ Has(d, "margin-bottom", Num("1"))
    /\ Has(d, "margin-left", Num("2"))

QueryReturns1212(r) == ~r.raised /\ Margin1212(r.out)

\* C14: the parser accepts a chain whose first simple selector begins with `.`,
\* `#`, `:` or `::`, at the start of a selector group as well as after `>`, and
\* records that simple selector with type `*`; the text
\* `* {margin:0;} .box{margin:1 2;}` loads into two rules, and the chain [div.box]
\* then gets margin-top = 1, margin-right = 2, margin-bottom = 1, margin-left = 2.
C14_ImpliedUniversalType ==
    p_pc # "call" =>
      /\ \A mn \in MarkedNames :
           /\ p_text = <<mn[1], mn[2]>> \o Block
                => /\ LoadedChain(<<StarWith(mn)>>)
                   /\ _split_selector(StarWith(mn)).type = "*"
           /\ p_text = <<tDiv, tGt, mn[1], mn[2]>> \o Block
                => LoadedChain(<<sDiv, Gt, StarWith(mn)>>)
      /\ p_text = BoxText
           => /\ p_pc = "returned"
              /\ Len(rules[1]) = 2
              /\ QueryReturns1212(compute_style(CurrentState, <<sDivBox>>, <<1>>))

\* `div {margin:`, the tokens before the value tokens of the first declaration
DeclHead == <<tDiv, tOpen, tMargin, tColon>>

\* the position of the first `;` or `}` from position k on, or past the end
RECURSIVE ValueEnd(_, _)
ValueEnd(toks, k) ==
    IF k > Len(toks) \/ toks[k] \in {tSemi, tClose} THEN k ELSE ValueEnd(toks, k + 1)

\* the values of the tokens from position 5 up to position k - 1
ValuesBefore(toks, k) == [i \in 1..(k - 5) |-> toks[i + 4].v]

\* the value of the first declaration of the first rule set constructed
FirstValue == rulesets[1].decllist[1].value

\* what the claim says of a text `div {margin: v1 .. vn` followed by the token
\* at position k (`;`, `}` or the end of the text), n >= 1
ValueShape(toks, k) ==
    IF k > Len(toks) \/ toks[k] = tClose THEN p_pc = "raised"
    ELSE p_pc = "returned" =>
           FirstValue = IF k = 6 THEN Scalar(toks[5].v) ELSE Tuple(ValuesBefore(toks, k))

----------------------------------------------------------------------------
(* Properties of stylesheets constructed from the same text *)

\* the rule sets of stylesheet s, in order
RuleValues(s) == [i \in DOMAIN rules[s] |-> rulesets[rules[s][i]]]

\* a and b are two stylesheets constructed from the same text with the same flag
SameText(a, b) ==
    /\ a # b
    /\ rules[a] # <<>>
    /\ RuleValues(a) = RuleValues(b)
    /\ inline[a] = inline[b]

\* compute_style(c, b) called after the call that gave r1 gives what r1 gave
SecondGivesSame(r1, c, b) == Res(compute_style(r1.st, c, <<b>>)) = Res(r1)

\* C15: two stylesheets constructed from the same text with the same inline flag
\* give equal compute_style results (maps, or the same exception) for every chain,
\* whatever other stylesheets were constructed or queried before, between or
\* after them.
C15_IdempotentReparse ==
    \A a, b \in ReparseSheets : \A c \in ReparseChains :
        SameText(a, b) => SecondGivesSame(compute_style(CurrentState, c, <<a>>), c, b)

ColourOf(r) == IF r.raised \/ "color" \notin DictKeys(r.out) THEN Str("") ELSE DictGet(r.out, "color")

\* both stylesheets give red where their own load order gives green: another
\* stylesheet put the specificity of `* > span` in the cache first
C15_Witness ==
    /\ SameText(1, 2)
    /\ Len(rules[1]) = 2
    /\ trie[1].built /\ trie[2].built /\ trie[3].built
    /\ ColourOf(compute_style(CurrentState, <<sDiv, sSpan>>, <<1>>)) = Col("red")
    /\ ColourOf(compute_style(CurrentState, <<sDiv, sSpan>>, <<2>>)) = Col("red")

----------------------------------------------------------------------------
(* Properties of the type test and of the specificity order *)

TypeOf(sel) == _split_selector(sel).type

\* C17: a style part's type matches an element part's type if and only if the
\* style type is `*` or equals the element type; in particular an element part
\* with empty type (a text node) matches a style part of type `*` and no style
\* part with a tag type.  Checked on calls with one element and one simple
\* selector, both made of a type only.
C17_StructuralTypeTest ==
    (m_pc = "done" /\ Len(m_elem) = 1 /\ Len(m_style) = 1)
    => /\ m_result = (TypeOf(m_style[1]) = "*" \/ TypeOf(m_style[1]) = TypeOf(m_elem[1]))
       /\ (m_elem = <<sText>> /\ m_style = <<sStar>> => m_result)
       /\ (m_elem = <<sText>> /\ m_style = <<sDiv>> => ~m_result)

\* the specificity tuple of the rule uid of stylesheet s (every rule drawn has one
\* selector)
OwnTuple(s, uid) == SpecificityTuple(rulesets[uid].selectors[1], uid, inline[s])

\* the position of the rule uid in self.rules of stylesheet s
LoadPos(s, uid) == CHOOSE i \in DOMAIN rules[s] : rules[s][i] = uid

\* the list l of rules of stylesheet s is in non-decreasing order of the
\* specificity tuples, entries of equal tuples in load order
InSpecificityOrder(s, l) ==
    \A i, j \in DOMAIN l :
        i < j => /\ ~TupleLess(OwnTuple(s, l[j]), OwnTuple(s, l[i]), 1)
                 /\ OwnTuple(s, l[i]) = OwnTuple(s, l[j]) => LoadPos(s, l[i]) <= LoadPos(s, l[j])

OrderedResult(s, r) == ~r.raised => InSpecificityOrder(s, r.out)

\* C18: the list get_matching_rules returns for a chain is in non-decreasing order
\* of the specificity tuple (inline, id count, class/attribute/pseudoclass count,
\* type count, uid), compared lexicographically, and entries with equal tuples
\* keep the order in which the rules were loaded.
C18_SpecificityOrder ==
    \A s \in ReparseSheets : \A c \in ReparseChains :
        trie[s].built => OrderedResult(s, get_matching_rules(trie[s].entries, c))

\* (inline, id, class, type) of a specificity tuple
Counts(t) == SubSeq(t, 1, 4)

\* among the rules of l with equal counts a rule loaded later comes later
LaterSortsAfter(s, l) ==
    \A i, j \in DOMAIN l :
        (i < j /\ Counts(OwnTuple(s, l[i])) = Counts(OwnTuple(s, l[j])))
        => LoadPos(s, l[i]) <= LoadPos(s, l[j])

TieBrokenResult(s, r) == ~r.raised => LaterSortsAfter(s, r.out)

\* C19: for every rule R and every selector of R inserted into the trie, the last
\* component of the stored specificity tuple is R's own uid, also when another
\* rule of this or an earlier stylesheet has a selector of the same text; hence
\* among matched rules with equal (inline, id, class, type) counts a rule loaded
\* later sorts after a rule loaded earlier.
C19_UidTieBreak ==
    \A s \in ReparseSheets :
        trie[s].built =>
          /\ \A i \in DOMAIN trie[s].entries :
                trie[s].entries[i].spec[5] = trie[s].entries[i].uid
          /\ \A c \in ReparseChains :
                TieBrokenResult(s, get_matching_rules(trie[s].entries, c))

----------------------------------------------------------------------------
(* Properties of split, join and strip *)

\* the parts p and q have the same type, id, classes, pseudoclasses,
\* pseudoelements, attributes and attribute values
SameFacets(p, q) ==
    /\ p.type = q.type /\ p.id = q.id /\ p.class = q.class
    /\ p.pseudoclass = q.pseudoclass /\ p.pseudoelement = q.pseudoelement
    /\ p.attribs = q.attribs /\ p.attribvals = q.attribvals

\* the facets the strip set keeps are the same in p and q
KeptFacetsSame(strip, p, q) ==
    /\ "type" \notin strip => p.type = q.type
    /\ "id" \notin strip => p.id = q.id
    /\ "classes" \notin strip => p.class = q.class
    /\ "pseudoclasses" \notin strip => p.pseudoclass = q.pseudoclass
    /\ "pseudoelements" \notin strip => p.pseudoelement = q.pseudoelement
    /\ "attributes" \notin strip => p.attribs = q.attribs
    /\ "attributevalues" \notin strip => p.attribvals = q.attribvals

\* C21: for every part p with a non-empty type, _split_selector of
\* _join_selector_parts(p) has the same type, id, classes, pseudoclasses,
\* pseudoelements, attributes and attribute values as p; so stripping with a set
\* that keeps a facet preserves that facet exactly.
C21_SplitJoinRoundTrip ==
    /\ j_pc \in {"strip", "done"}
         => SameFacets(_split_selector(j_joined), _split_selector(j_sel))
    /\ j_pc = "done"
         => KeptFacetsSame(j_strip, _split_selector(j_stripped[1]), _split_selector(j_sel))

----------------------------------------------------------------------------
(* Properties of filter_styling *)

\* a property map as the set of its (property, value) pairs
AsMap(d) == {<<d[i].k, d[i].v>> : i \in DOMAIN d}

\* the two calls return maps of the same pairs
SameStyle(r1, r2) == ~r1.raised /\ ~r2.raised /\ AsMap(r1.out) = AsMap(r2.out)

\* expanding the map r returned, fed back as declarations in its order, gives it again
ReExpandsToItself(r) ==
    ~r.raised => AsMap(_expand_declarations(DictDecls(r.out))) = AsMap(r.out)

\* C22: for a stylesheet S and a chain c, compute_style(c, S.filter_styling(c))
\* equals compute_style(c, S), and re-expanding an already expanded property map
\* changes no property.
C22_FilterFaithful ==
    \A c \in FilterChains :
      (rules[2] # <<>> /\ rulesets[rules[2][1]].selectors = <<c>>)
      => /\ SameStyle(compute_style(CurrentState, c, <<2>>), compute_style(CurrentState, c, <<1>>))
         /\ ReExpandsToItself(compute_style(CurrentState, c, <<1>>))

----------------------------------------------------------------------------
(* Properties of the rules and declarations a lookup returns *)

NoDuplicates(seq) == \A i, j \in DOMAIN seq : seq[i] = seq[j] => i = j

\* the lookup of stylesheet 1 for m_elem returned
Looked == m_pc = "looked" /\ m_result

\* the rules get_matching_rules returns for m_elem after the lookup
MatchingNow == get_matching_rules(trie[1].entries, m_elem).out

\* C23: get_matching_rules returns each rule at most once, also when a descendant
\* selector can be satisfied by more than one ancestor, and get_decllist holds
\* each matching rule's declarations once.
C23_NoDuplicateMatches ==
    Looked =>
      /\ NoDuplicates(MatchingNow)
      /\ Len(decllist_cache[1][m_elem]) <= Len(rulesets[1].decllist)

----------------------------------------------------------------------------
(* Properties of stylesheets queried beside other stylesheets *)

\* what compute_style(c, s) gives when no other stylesheet was ever optimized:
\* the specificity cache holds nothing of another stylesheet
AloneStyle(s, c) == FreshStyle(rules[s], rulesets, inline[s], <<>>, c)

\* C24: compute_style(chain, S) depends only on the rules of S and on the chain;
\* another stylesheet loaded, optimized or queried earlier does not change it.
C24_NoInterference ==
    \A s \in ReparseSheets : \A c \in ReparseChains :
        rules[s] # <<>> => Res(compute_style(CurrentState, c, <<s>>)) = AloneStyle(s, c)

----------------------------------------------------------------------------
(* Properties of the approximate pre-check *)

\* the structural comparison alone: _match_selector without its pre-check branch
RECURSIVE Structural(_, _, _, _, _)
Structural(sel_elem, pts_elem, sel_style, pts_style, cont) ==
    IF Len(sel_style) = 0 THEN TRUE
    ELSE IF Len(sel_elem) = 0 THEN FALSE
    ELSE IF Last(sel_style) = Gt
    THEN Structural(sel_elem, pts_elem, Front(sel_style), Front(pts_style), FALSE)
    ELSE IF _match_selector_parts(Last(pts_elem), Last(pts_style))
            /\ Structural(Front(sel_elem), Front(pts_elem),
                          Front(sel_style), Front(pts_style), TRUE)
    THEN TRUE
    ELSE IF ~cont THEN FALSE
    ELSE Structural(Front(sel_elem), Front(pts_elem), sel_style, pts_style, TRUE)

\* the pre-check passes every pair of a chain prefix and a selector prefix, in
\* either mode, that the structural comparison accepts
NeverRejectsAccepted(sel_elem, sel_style) ==
    \A i \in 1..Len(sel_elem), j \in 1..Len(sel_style), cont \in BOOLEAN :
        (sel_style[j] # Gt
           /\ Structural(SubSeq(sel_elem, 1, i), SplitAll(SubSeq(sel_elem, 1, i)),
                         SubSeq(sel_style, 1, j), SplitAll(SubSeq(sel_style, 1, j)), cont))
        => _match_selector_approx(SplitAll(SubSeq(sel_elem, 1, i)),
                                  SplitAll(SubSeq(sel_style, 1, j)), ~cont)

\* C25: _match_selector_approx never rejects a pair that the structural
\* comparison accepts, in either mode, so match_selector returns what the
\* matcher without the pre-check returns.
C25_ApproxSound ==
    m_pc = "done" =>
      /\ NeverRejectsAccepted(m_elem, m_style)
      /\ m_result = Structural(m_elem, SplitAll(m_elem), m_style, SplitAll(m_style), FALSE)

\* `div span#a` matched against [div.box, span.box#a]: the pre-check passed in
\* both modes (the end test on span#a, then the names of `div` alone)
C25_Witness ==
    /\ m_pc = "done"
    /\ m_result
    /\ m_style = <<sDiv, sSpanA>>
    /\ m_elem = <<sDivBox, sSpanBoxA>>

----------------------------------------------------------------------------
(* Properties of the selector groups and declaration values the parser accepts *)

\* a chain of at least one simple selector that neither begins nor ends with a
\* combinator
ProperChain(chain) == chain # <<>> /\ chain[1] # Gt /\ Last(chain) # Gt

\* a selector group of at least one chain, all proper
ProperGroup(selectors) ==
    selectors # <<>> /\ \A j \in DOMAIN selectors : ProperChain(selectors[j])

\* C26: every rule set the parser produces has at least one selector chain, every
\* chain has at least one simple selector, and no chain begins or ends with a
\* combinator; `{..}` with no selector, `div, {..}` and `> div {..}` are rejected
\* with a parse error.
C26_SelectorGroupNeverEmpty ==
    /\ p_pc = "returned" =>
         \A i \in DOMAIN rules[1] : ProperGroup(rulesets[rules[1][i]].selectors)
    /\ (p_pc # "call" /\ p_text \in {Block, <<tDiv, tComma>> \o Block, <<tGt, tDiv>> \o Block})
         => p_pc = "raised"

\* the value holds the punctuation `;` or `}`, alone or in a tuple
HasPunctuation(value) ==
    \E k \in DOMAIN value.items : value.items[k] \in {Sv(";"), Sv("}")}

\* C27: a declaration in which `;` directly follows `:` makes the parse fail, and
\* the parser never produces a declaration whose value is the punctuation token
\* `;` or `}`.
C27_MissingValueIsError ==
    /\ ( /\ p_pc # "call"
         /\ Len(p_text) > 4
         /\ SubSeq(p_text, 1, 5) = DeclHead \o <<tSemi>> )
       => p_pc = "raised"
    /\ p_pc = "returned" =>
         \A i \in DOMAIN rules[1] : \A k \in DOMAIN rulesets[rules[1][i]].decllist :
             ~HasPunctuation(rulesets[rules[1][i]].decllist[k].value)

----------------------------------------------------------------------------
(* Properties of the specificity counts *)

\* the sum of count(part) over the parts of a selector
RECURSIVE SumOver(_, _, _)
SumOver(parts, count(_), i) ==
    IF i > Len(parts) THEN 0 ELSE count(parts[i]) + SumOver(parts, count, i + 1)

HasId(part) == IF part.id # "" THEN 1 ELSE 0

ClassLike(part) ==
    Cardinality(part.class) + Cardinality(part.pseudoclass)
      + Cardinality(part.attribs) + Cardinality(DOMAIN part.attribvals)

\* an explicit type counts one, `*` and a combinator entry nothing; each
\* pseudoelement counts one
TypeLike(part) ==
    (IF part.type \notin {"", "*", ">"} THEN 1 ELSE 0) + Cardinality(part.pseudoelement)

\* (inline, ids, classes + pseudoclasses + attributes + attribute values,
\*  explicit types + pseudoelements, uid)
CountedTuple(selector, uid, inl) ==
    <<IF inl THEN 1 ELSE 0,
      SumOver(SplitAll(selector), HasId, 1),
      SumOver(SplitAll(selector), ClassLike, 1),
      SumOver(SplitAll(selector), TypeLike, 1),
      uid>>

\* C28: selector_specificity(selector, uid, inline) returns (1 if inline else 0,
\* number of parts with an id, classes + pseudoclasses + attributes + attribute
\* values over all parts, explicit types plus pseudoelements over all parts, uid);
\* combinator entries and `*` types add nothing.
C28_SpecificityCounts ==
    \A k \in DOMAIN spec_cache :
        \E uid \in DOMAIN rulesets :
            /\ \E j \in DOMAIN rulesets[uid].selectors : rulesets[uid].selectors[j] = k[1]
            /\ spec_cache[k] = CountedTuple(k[1], uid, k[2])

====
